---------------------------- MODULE Spec2Model ----------------------------
(***************************************************************************)
(* A state-machine model of the BugBoy demo application: the mock store of *)
(* src/lib/db.ts and the HTTP handlers of src/app/api and src/unnamed.      *)
(* Every handler is one action (or, where it awaits something another      *)
(* task completes, one action per step); req holds the request being       *)
(* served and resp the response produced for it.                           *)
(***************************************************************************)
EXTENDS Integers, Sequences, FiniteSets, TLC

VARIABLES
    clock,               \* Date.now(), in milliseconds
    req,                 \* the request last handled (handler name and inputs)
    resp,                \* the response (or uncaught error) it produced
    notificationsStore,  \* notifications/route.ts: Notification[]
    ordersTable,         \* db.ts: Order[]
    reservations,        \* stock reservations the inventory service was asked for
    ck,                  \* the POST /api/checkout request in flight
    pageViewsStore,      \* db.ts: Map<string, PageView>
    settingsStore,       \* part_011: Map<string, UserSettings>
    commentsStore,       \* part_012: Comment[]
    loginAttempts,       \* part_006: Map<string, LoginAttempt[]>
    activeSessions,      \* part_006: Map<string, Session>
    issued,              \* history: the sessions successful logins created
    loggedOut,           \* history: the tokens DELETE removed
    exportJobs,          \* part_007: Map<string, ExportJob>
    exportRequested,     \* history: ids of the jobs valid POSTs asked for
    productsStore,       \* lib/db.ts: productsTable, as the process holds it
    tracking,            \* upload/route.ts 190-214: the requests under way
    paging,              \* a client paging through GET /api/products
    logins               \* part_006: concurrent logins for one email

vars == <<clock, req, resp, notificationsStore, ordersTable, reservations, ck,
          pageViewsStore, settingsStore, commentsStore, loginAttempts,
          activeSessions, issued, loggedOut, exportJobs, exportRequested,
          productsStore, tracking, paging, logins>>

\* The variables of each subsystem, for the actions that leave it alone.
notifVars == <<notificationsStore>>
checkoutVars == <<ordersTable, reservations, ck>>
storeVars == <<pageViewsStore>>
settingsVars == <<settingsStore>>
commentVars == <<commentsStore>>
authVars == <<loginAttempts, activeSessions, issued, loggedOut>>
exportVars == <<exportJobs, exportRequested>>
catalogVars == <<productsStore>>
trackVars == <<tracking>>
pagingVars == <<paging>>
loginsVars == <<logins>>

(***************************************************************************)
(* JavaScript values                                                       *)
(***************************************************************************)
Undefined == "undefined"
Null == "null"
EmptyString == ""

\* null where a record is expected (the result of a failed lookup).
NullRecord == [isNull |-> TRUE]

\* JavaScript truthiness of a string-valued (or missing) field.
Truthy(v) == v \notin {Undefined, Null, EmptyString}

(***************************************************************************)
(* Bounds                                                                  *)
(***************************************************************************)
MaxClock == 1            \* Date.now() takes the values 0..MaxClock
MaxCreated == 1          \* records a store may gain beyond its seed
MaxPosted == 2           \* comments a burst of POST requests may add
MaxIdList == 1           \* longest notificationIds array tried
MaxIncrement == 1        \* increments applied on top of a written count
MaxAttemptLog == 5       \* failed login attempts kept in loginAttempts

(***************************************************************************)
(* src/lib/db.ts: seed data.  Dates are day numbers; lastLoginAt 0 is null. *)
(***************************************************************************)
usersTable ==
    << [id |-> "usr_1a2b3c", email |-> "sarah.chen@company.com",
        role |-> "admin", profile |-> "Engineering", lastLoginAt |-> 20],
       [id |-> "usr_4d5e6f", email |-> "marcus.johnson@company.com",
        role |-> "user", profile |-> "Marketing", lastLoginAt |-> 19],
       [id |-> "usr_7g8h9i", email |-> "alex.rivera@company.com",
        role |-> "user", profile |-> Null, lastLoginAt |-> 0] >>

UserIds == {usersTable[i].id : i \in DOMAIN usersTable}

\* A user id no record has, the empty string and a missing field.
UserIdInputs == UserIds \cup {"usr_unknown", EmptyString, Undefined}

(***************************************************************************)
(* src/app/api/notifications/route.ts                                      *)
(***************************************************************************)
NotifId(n) == <<"notif", n>>

\* Seed ids notif_001..notif_003 are not of the form notif_<Date.now()>.
notificationsSeed ==
    << [id |-> NotifId(-1), userId |-> "usr_1a2b3c", type |-> "info",
        read |-> TRUE],
       [id |-> NotifId(-2), userId |-> "usr_1a2b3c", type |-> "warning",
        read |-> FALSE],
       [id |-> NotifId(-3), userId |-> "usr_4d5e6f", type |-> "success",
        read |-> FALSE] >>

validTypes == {"info", "warning", "error", "success"}

\* POST, lines 136-199: `notif_${Date.now()}`, read: false, pushed at the end.
\* expiresIn 0 stands for a missing expiresIn as well: both are falsy.
NotificationsPOST ==
    /\ Len(notificationsStore) < Len(notificationsSeed) + MaxCreated
    /\ \E userId \in {"usr_1a2b3c", "usr_4d5e6f", Undefined},
          hasTitle \in BOOLEAN, hasMessage \in BOOLEAN,
          type \in {Undefined, "bogus"}, expiresIn \in {0, -1, 24} :
        /\ req' = [op |-> "POST_notifications", userId |-> userId]
        /\ IF ~Truthy(userId) \/ ~hasTitle \/ ~hasMessage
           THEN /\ resp' = [op |-> "POST_notifications", status |-> 400,
                            success |-> FALSE]
                /\ UNCHANGED notificationsStore
           ELSE IF Truthy(type) /\ type \notin validTypes
           THEN /\ resp' = [op |-> "POST_notifications", status |-> 400,
                            success |-> FALSE]
                /\ UNCHANGED notificationsStore
           ELSE IF expiresIn # 0 /\ expiresIn <= 0
           THEN /\ resp' = [op |-> "POST_notifications", status |-> 400,
                            success |-> FALSE]
                /\ UNCHANGED notificationsStore
           ELSE /\ notificationsStore' = Append(notificationsStore,
                        [id |-> NotifId(clock), userId |-> userId,
                         type |-> IF Truthy(type) THEN type ELSE "info",
                         read |-> FALSE])
                /\ resp' = [op |-> "POST_notifications", status |-> 200,
                            success |-> TRUE, notificationId |-> NotifId(clock)]
    /\ UNCHANGED <<clock, checkoutVars, storeVars,
                   settingsVars, commentVars,
                   authVars,
                   exportVars,
                   catalogVars,
                   trackVars,
                   pagingVars,
                   loginsVars>>

\* PATCH, lines 241: the notification an id of the list selects for userId.
OwnsNotification_NoOwnerCheck(n, id, userId) == n.id = id

OwnsNotification(n, id, userId) == n.id = id /\ n.userId = userId

\* notificationsStore.find(...): the index of the first match, 0 when none.
FindNotification(store, id, userId) ==
    LET hits == {i \in DOMAIN store : OwnsNotification(store[i], id, userId)}
    IN  IF hits = {} THEN 0 ELSE CHOOSE i \in hits : \A j \in hits : i <= j

\* The loop of lines 239-246 over notificationIds[k..]: <<store, updated>>.
RECURSIVE MarkListed(_, _, _, _)
MarkListed(store, ids, userId, updated) ==
    IF ids = << >> THEN <<store, updated>>
    ELSE LET i == FindNotification(store, Head(ids), userId)
         IN  IF i = 0
             THEN MarkListed(store, Tail(ids), userId, updated)
             ELSE MarkListed([store EXCEPT ![i].read = TRUE], Tail(ids),
                             userId, updated + 1)

\* The filter of lines 209-215: marks and counts the user's unread ones.
MarkAllOf(store, userId) ==
    [i \in DOMAIN store |->
        IF store[i].userId = userId /\ ~store[i].read
        THEN [store[i] EXCEPT !.read = TRUE] ELSE store[i]]

CountUnreadOf(store, userId) ==
    Cardinality({i \in DOMAIN store :
                    store[i].userId = userId /\ ~store[i].read})

KnownNotifIds == {notificationsStore[i].id : i \in DOMAIN notificationsStore}
                    \cup {NotifId(-9)}

IdLists == UNION {[1..n -> KnownNotifIds] : n \in 0..MaxIdList}

\* body.notificationIds: missing, not an array, or an array of ids.
IdsKinds == {"undefined", "not-array", "array"}

NotificationsPATCH ==
    /\ \E userId \in {"usr_1a2b3c", "usr_4d5e6f", EmptyString, Undefined},
          markAllRead \in BOOLEAN,
          idsKind \in IdsKinds, notificationIds \in IdLists :
        /\ idsKind # "array" => notificationIds = << >>
        /\ req' = [op |-> "PATCH_notifications", userId |-> userId,
                   markAllRead |-> markAllRead, idsKind |-> idsKind]
        /\ IF markAllRead /\ Truthy(userId)
           THEN /\ notificationsStore' = MarkAllOf(notificationsStore, userId)
                /\ resp' = [op |-> "PATCH_notifications", status |-> 200,
                            success |-> TRUE,
                            updated |-> CountUnreadOf(notificationsStore, userId)]
           ELSE IF idsKind # "array"
           THEN /\ resp' = [op |-> "PATCH_notifications", status |-> 400,
                            success |-> FALSE]
                /\ UNCHANGED notificationsStore
           ELSE IF ~Truthy(userId)
           THEN /\ resp' = [op |-> "PATCH_notifications", status |-> 400,
                            success |-> FALSE]
                /\ UNCHANGED notificationsStore
           ELSE LET r == MarkListed(notificationsStore, notificationIds,
                                    userId, 0)
                IN  /\ notificationsStore' = r[1]
                    /\ resp' = [op |-> "PATCH_notifications", status |-> 200,
                                success |-> TRUE, updated |-> r[2]]
    /\ UNCHANGED <<clock, checkoutVars, storeVars,
                   settingsVars, commentVars,
                   authVars,
                   exportVars,
                   catalogVars,
                   trackVars,
                   pagingVars,
                   loginsVars>>

(***************************************************************************)
(* src/lib/db.ts: products and orders.  Prices and totals are in cents,    *)
(* dates are day numbers.                                                  *)
(***************************************************************************)
productsTable ==
    << [id |-> "prod_001", sku |-> "WDG-PRO-001", price |-> 29999,
        inventory |-> 150, category |-> "cat_widgets", createdAt |-> 1],
       [id |-> "prod_002", sku |-> "WDG-STD-002", price |-> 14999,
        inventory |-> 500, category |-> "cat_widgets", createdAt |-> 2],
       [id |-> "prod_003", sku |-> "ACC-CBL-001", price |-> 4999,
        inventory |-> 1000, category |-> "cat_accessories", createdAt |-> 3],
       [id |-> "prod_004", sku |-> "MISC-PROTO-001", price |-> 89999,
        inventory |-> 12, category |-> Null, createdAt |-> 4] >>

ordersSeed ==
    << [id |-> <<"ord", -1001>>, customer |-> "sarah.chen@company.com",
        total |-> 64997, status |-> "completed", createdAt |-> 10],
       [id |-> <<"ord", -1002>>, customer |-> "marcus.johnson@company.com",
        total |-> 74995, status |-> "processing", createdAt |-> 18],
       [id |-> <<"ord", -1003>>, customer |-> "alex.rivera@company.com",
        total |-> 89999, status |-> "pending", createdAt |-> 20] >>

\* db.users.findUnique, lines 211-214: the first user with the id, or null.
UsersFindUnique_AlwaysNull(id) == NullRecord

UsersFindUnique(id) ==
    LET hits == {i \in DOMAIN usersTable : usersTable[i].id = id}
    IN  IF hits = {} THEN NullRecord
        ELSE usersTable[CHOOSE i \in hits : \A j \in hits : i <= j]

(***************************************************************************)
(* The parts of lib/db the checkout and product handlers call and src/     *)
(* does not hold: products looked up by numeric id, the inventory service, *)
(* the payment service and orders.create.                                  *)
(***************************************************************************)
\* The numeric ids the dashboard requests (1001, 1003) name the seed rows.
NumericProductIds == {1001, 1002, 1003, 1004}

ProductsFindUnique(id) ==
    IF id \in NumericProductIds THEN productsStore[id - 1000] ELSE NullRecord

\* inventoryService.checkAvailability: current stock against the quantity.
CheckAvailability(productId, quantity) ==
    LET p == ProductsFindUnique(productId)
    IN  [available |-> p.inventory >= quantity, currentStock |-> p.inventory]

\* db.orders.create: a time-based id, appended.
OrdersCreate(table, userId, total) ==
    Append(table, [id |-> <<"ord", clock>>, customer |-> userId,
                   total |-> total, status |-> "pending",
                   createdAt |-> clock])

(***************************************************************************)
(* src/app/api/checkout/route.ts: POST /api/checkout                       *)
(***************************************************************************)
MaxItems == 2            \* longest items array tried
MaxCheckouts == 1        \* checkout requests served

ckIdle == [pc |-> "idle", n |-> 0, customerId |-> Undefined, items |-> << >>,
           total |-> 0, payment |-> "none", pendingReservations |-> 0,
           examined |-> "none", orderCreated |-> FALSE]

CheckoutItems == [productId : {1001, 1004, 9999}, quantity : {1, 13}]

CheckoutItemLists == UNION {[1..n -> CheckoutItems] : n \in 0..MaxItems}

\* Lines 55-98: the index of the first item the loop rejects, 0 when none.
FirstBadItem(items) ==
    LET bad == {i \in DOMAIN items :
                   \/ ProductsFindUnique(items[i].productId) = NullRecord
                   \/ ~CheckAvailability(items[i].productId,
                                         items[i].quantity).available}
    IN  IF bad = {} THEN 0 ELSE CHOOSE i \in bad : \A j \in bad : i <= j

RECURSIVE Subtotal(_)
Subtotal(items) ==
    IF items = << >> THEN 0
    ELSE ProductsFindUnique(Head(items).productId).price * Head(items).quantity
            + Subtotal(Tail(items))

\* Lines 101-103: 8% tax.
TotalWithTax(items) == Subtotal(items) + (Subtotal(items) * 8) \div 100

\* Lines 25-117, up to the first await that another task completes: the
\* request is validated, every item's stock reservation is requested and the
\* payment is requested; none of the promises has settled yet.
CheckoutReceive ==
    /\ ck.pc \in {"idle", "done"}
    /\ ck.payment # "pending"
    /\ ck.n < MaxCheckouts
    /\ \E customerId \in {"usr_1a2b3c", "usr_unknown", Undefined},
          items \in CheckoutItemLists :
        /\ req' = [op |-> "POST_checkout", customerId |-> customerId,
                   items |-> items]
        /\ IF ~Truthy(customerId) \/ items = << >>
           THEN /\ resp' = [op |-> "POST_checkout", status |-> 400,
                            success |-> FALSE]
                /\ ck' = [ckIdle EXCEPT !.pc = "done", !.n = ck.n + 1]
                /\ UNCHANGED reservations
           ELSE IF UsersFindUnique(customerId) = NullRecord
           THEN /\ resp' = [op |-> "POST_checkout", status |-> 404,
                            success |-> FALSE]
                /\ ck' = [ckIdle EXCEPT !.pc = "done", !.n = ck.n + 1]
                /\ UNCHANGED reservations
           ELSE IF FirstBadItem(items) # 0
           THEN /\ resp' = [op |-> "POST_checkout",
                            status |->
                              IF ProductsFindUnique(
                                   items[FirstBadItem(items)].productId) = NullRecord
                              THEN 404 ELSE 409,
                            success |-> FALSE]
                /\ ck' = [ckIdle EXCEPT !.pc = "done", !.n = ck.n + 1]
                /\ UNCHANGED reservations
           ELSE /\ resp' = [op |-> "POST_checkout", status |-> 0,
                            success |-> FALSE]
                /\ reservations' = reservations \o
                       [i \in DOMAIN items |->
                           [request |-> ck.n + 1,
                            productId |-> items[i].productId,
                            quantity |-> items[i].quantity]]
                /\ ck' = [pc |-> "awaitReservations", n |-> ck.n + 1,
                          customerId |-> customerId, items |-> items,
                          total |-> TotalWithTax(items),
                          payment |-> "pending",
                          pendingReservations |-> Len(items),
                          examined |-> "none", orderCreated |-> FALSE]
    /\ UNCHANGED <<clock, notifVars, ordersTable, storeVars, settingsVars,
                   commentVars,
                   authVars,
                   exportVars,
                   catalogVars,
                   trackVars,
                   pagingVars,
                   loginsVars>>

\* inventoryService.reserveStock's promise settles with a reservation id.
ReservationResolve ==
    /\ ck.pendingReservations > 0
    /\ ck' = [ck EXCEPT !.pendingReservations = @ - 1]
    /\ UNCHANGED <<clock, req, resp, notifVars, ordersTable, reservations,
                   storeVars, settingsVars, commentVars,
                   authVars,
                   exportVars,
                   catalogVars,
                   trackVars,
                   pagingVars,
                   loginsVars>>

\* paymentService.processPayment's promise settles: approved or declined.
PaymentResolve ==
    /\ ck.payment = "pending"
    /\ \E outcome \in {"approved", "declined"} :
          ck' = [ck EXCEPT !.payment = outcome]
    /\ UNCHANGED <<clock, req, resp, notifVars, ordersTable, reservations,
                   storeVars, settingsVars, commentVars,
                   authVars,
                   exportVars,
                   catalogVars,
                   trackVars,
                   pagingVars,
                   loginsVars>>

\* Line 113: paymentResult is what processPayment returned, a Promise, for
\* the call is not awaited; line 127 reads its success property.
PaymentResultSuccess_Awaited(payment) == payment = "approved"

PaymentResultSuccess(payment) == FALSE

\* Line 127, the test that follows: if (!paymentResult.success) answers 402.
PaymentCheckPasses_Unchecked(payment) == TRUE

PaymentCheckPasses(payment) == PaymentResultSuccess(payment)

\* Lines 127-136: the 402 branch returns at once; it calls nothing that
\* releases the reservations of the request.
ReservationsAfterFailure_Released(made, n) ==
    SelectSeq(made, LAMBDA r : r.request # n)

ReservationsAfterFailure(made, n) == made

\* Lines 120-164: after await Promise.all(reservations).
CheckoutContinue ==
    /\ ck.pc = "awaitReservations"
    /\ ck.pendingReservations = 0
    /\ IF ~PaymentCheckPasses(ck.payment)
       THEN /\ resp' = [op |-> "POST_checkout", status |-> 402,
                        success |-> FALSE]
            /\ ck' = [ck EXCEPT !.pc = "done", !.examined = ck.payment]
            /\ reservations' = ReservationsAfterFailure(reservations, ck.n)
            /\ UNCHANGED ordersTable
       ELSE /\ UNCHANGED reservations
            /\ ordersTable' = OrdersCreate(ordersTable, ck.customerId, ck.total)
            /\ resp' = [op |-> "POST_checkout", status |-> 200,
                        success |-> TRUE, orderId |-> <<"ord", clock>>,
                        transactionId |->
                            IF PaymentResultSuccess(ck.payment)
                            THEN "txn" ELSE Undefined]
            /\ ck' = [ck EXCEPT !.pc = "done", !.examined = ck.payment,
                                !.orderCreated = TRUE]
    /\ UNCHANGED <<clock, req, notifVars, storeVars, settingsVars,
                   commentVars,
                   authVars,
                   exportVars,
                   catalogVars,
                   trackVars,
                   pagingVars,
                   loginsVars>>

(***************************************************************************)
(* src/lib/db.ts: the database client, called directly.  A where filter is *)
(* a function from some of the primitive, string-valued fields to values.  *)
(***************************************************************************)
Wheres(fields, values) ==
    UNION {[D -> values] : D \in SUBSET fields}

\* Object.entries(where).every(([key, value]) => row[key] === value)
MatchesWhere(row, where) == \A k \in DOMAIN where : row[k] = where[k]

RowIds(rows) == [i \in DOMAIN rows |-> rows[i].id]

\* Array.prototype.sort with the comparator of lines 233-242 / 288-297 on a
\* Date field: a stable insertion of row into the sorted rows.
RECURSIVE InsertByDate(_, _, _)
InsertByDate(sorted, row, direction) ==
    IF sorted = << >> THEN <<row>>
    ELSE LET last == sorted[Len(sorted)]
             before == IF direction = "desc"
                       THEN row.createdAt > last.createdAt
                       ELSE row.createdAt < last.createdAt
         IN  IF before
             THEN Append(InsertByDate(SubSeq(sorted, 1, Len(sorted) - 1),
                                      row, direction), last)
             ELSE Append(sorted, row)

RECURSIVE SortByDate(_, _)
SortByDate(rows, direction) ==
    IF rows = << >> THEN << >>
    ELSE InsertByDate(SortByDate(SubSeq(rows, 1, Len(rows) - 1), direction),
                      rows[Len(rows)], direction)

\* orderBy: none, or one field and a direction; the comparator orders Date
\* values and returns 0 for any other field.
NoOrder == [field |-> "none", direction |-> "asc"]

OrderBys == {NoOrder, [field |-> "createdAt", direction |-> "asc"],
             [field |-> "createdAt", direction |-> "desc"],
             [field |-> "price", direction |-> "desc"]}

ApplyOrderBy(rows, orderBy) ==
    IF orderBy.field = "createdAt" THEN SortByDate(rows, orderBy.direction)
    ELSE rows

\* results.slice(n) and results.slice(0, n)
SliceFrom(rows, n) == SubSeq(rows, n + 1, Len(rows))

SliceTake(rows, n) ==
    LET end == IF n < 0
               THEN (IF Len(rows) + n < 0 THEN 0 ELSE Len(rows) + n)
               ELSE (IF n < Len(rows) THEN n ELSE Len(rows))
    IN  SubSeq(rows, 1, end)

\* db.users.findMany, lines 199-209.
UsersFindMany(where) == SelectSeq(usersTable, LAMBDA u : MatchesWhere(u, where))

\* What await db.<table>.findMany(...) hands to its caller: every return
\* of the three findMany functions returns the array the call built.
FindManyResolved(rows) == [defined |-> TRUE, rows |-> rows]

UserWheres == Wheres({"id", "role"},
                     {"usr_1a2b3c", "usr_7g8h9i", "admin", "user", "guest"})

UsersFindManyCall ==
    /\ \E where \in UserWheres :
        /\ req' = [op |-> "users.findMany", where |-> where,
                   orderBy |-> NoOrder, cursor |-> Undefined, skip |-> 0,
                   take |-> 0]
        /\ resp' = [op |-> "users.findMany", threw |-> FALSE,
                    rows |-> RowIds(UsersFindMany(where))]
    /\ UNCHANGED <<clock, notifVars, checkoutVars, storeVars,
                   settingsVars, commentVars,
                   authVars,
                   exportVars,
                   catalogVars,
                   trackVars,
                   pagingVars,
                   loginsVars>>

UsersFindUniqueCall ==
    /\ \E id \in UserIds \cup {"usr_unknown"} :
        /\ req' = [op |-> "users.findUnique", key |-> id]
        /\ resp' = [op |-> "users.findUnique", threw |-> FALSE,
                    result |-> UsersFindUnique(id)]
    /\ UNCHANGED <<clock, notifVars, checkoutVars, storeVars,
                   settingsVars, commentVars,
                   authVars,
                   exportVars,
                   catalogVars,
                   trackVars,
                   pagingVars,
                   loginsVars>>

\* db.products.findMany, lines 218-264: sort, cursor, skip, take; the where
\* option is accepted and never read.
CursorIndex(rows, cursorId) ==
    LET hits == {i \in DOMAIN rows : rows[i].id = cursorId}
    IN  IF hits = {} THEN 0 ELSE CHOOSE i \in hits : \A j \in hits : i <= j

ApplyCursor(rows, cursorId) ==
    IF Truthy(cursorId) /\ CursorIndex(rows, cursorId) # 0
    THEN SliceFrom(rows, CursorIndex(rows, cursorId) - 1)
    ELSE rows

ProductsWhereFilter_Applied(rows, where) ==
    SelectSeq(rows, LAMBDA r : MatchesWhere(r, where))

ProductsWhereFilter(rows, where) == rows

\* skip 0 and take 0 stand for a missing option as well: both are falsy.
ProductsFindMany(where, orderBy, cursorId, skip, take) ==
    LET sorted == ApplyOrderBy(ProductsWhereFilter(productsStore, where), orderBy)
        fromCursor == ApplyCursor(sorted, cursorId)
        skipped == IF skip # 0 THEN SliceFrom(fromCursor, skip) ELSE fromCursor
    IN  IF take # 0 THEN SliceTake(skipped, take) ELSE skipped

ProductWheres == Wheres({"id", "sku"}, {"prod_001", "MISC-PROTO-001"})

MaxTake == 2             \* largest take tried

ProductsFindManyCall ==
    /\ \E where \in ProductWheres, orderBy \in OrderBys,
          cursorId \in {Undefined, "prod_002", "prod_999"},
          skip \in {0, 1}, take \in 0..MaxTake :
        /\ req' = [op |-> "products.findMany", where |-> where,
                   orderBy |-> orderBy, cursor |-> cursorId, skip |-> skip,
                   take |-> take]
        /\ resp' = [op |-> "products.findMany", threw |-> FALSE,
                    rows |-> RowIds(ProductsFindMany(where, orderBy, cursorId,
                                                     skip, take))]
    /\ UNCHANGED <<clock, notifVars, checkoutVars, storeVars,
                   settingsVars, commentVars,
                   authVars,
                   exportVars,
                   catalogVars,
                   trackVars,
                   pagingVars,
                   loginsVars>>

\* db.orders.findMany, lines 268-305: filter, sort, take.
OrdersFindMany(table, where, orderBy, take) ==
    LET filtered == SelectSeq(table, LAMBDA o : MatchesWhere(o, where))
        sorted == ApplyOrderBy(filtered, orderBy)
    IN  IF take # 0 THEN SliceTake(sorted, take) ELSE sorted

OrderWheres == Wheres({"status", "customer"},
                      {"pending", "cancelled", "alex.rivera@company.com"})

OrdersFindManyCall ==
    /\ \E where \in OrderWheres, orderBy \in OrderBys, take \in 0..MaxTake :
        /\ req' = [op |-> "orders.findMany", where |-> where,
                   orderBy |-> orderBy, cursor |-> Undefined, skip |-> 0,
                   take |-> take]
        /\ resp' = [op |-> "orders.findMany", threw |-> FALSE,
                    rows |-> RowIds(OrdersFindMany(ordersTable, where,
                                                   orderBy, take))]
    /\ UNCHANGED <<clock, notifVars, checkoutVars, storeVars,
                   settingsVars, commentVars,
                   authVars,
                   exportVars,
                   catalogVars,
                   trackVars,
                   pagingVars,
                   loginsVars>>

(***************************************************************************)
(* The handlers that read findMany: GET /api/users (the two snapshots of   *)
(* src/app/api/users/route.ts and src/unnamed/part_008) and                *)
(* GET /api/analytics (src/app/api/analytics/route.ts).                    *)
(***************************************************************************)
\* What a handler receives from await db.<table>.findMany(...): the rows,
\* or undefined when the simulated connection failure happens.
FindManyOutcomes(rows) ==
    {[defined |-> TRUE, rows |-> rows], [defined |-> FALSE, rows |-> << >>]}

\* url role parameter: absent, or a string.
RoleInputs == {Null, "admin", "user", "guest", "owner"}

RoleWhere(role) == IF Truthy(role) THEN [k \in {"role"} |-> role]
                   ELSE [k \in {} |-> role]

Uncaught(op, variant, error) ==
    [op |-> op, variant |-> variant, threw |-> TRUE, error |-> error,
     status |-> 500, success |-> FALSE]

UsersResponse(variant, users) ==
    [op |-> "GET_users", variant |-> variant, threw |-> FALSE,
     status |-> 200, success |-> TRUE, data |-> RowIds(users.rows),
     total |-> Len(users.rows), timestamp |-> clock]

\* users/route.ts, lines 6-61: an undefined result is answered 500.
UsersGET ==
    /\ \E role \in RoleInputs :
       \E users \in FindManyOutcomes(UsersFindMany(RoleWhere(role))) :
        /\ req' = [op |-> "GET_users", variant |-> "route", role |-> role,
                   dbUndefined |-> ~users.defined]
        /\ resp' = IF ~users.defined
                   THEN [op |-> "GET_users", variant |-> "route",
                         threw |-> FALSE, status |-> 500, success |-> FALSE]
                   ELSE UsersResponse("route", users)
    /\ UNCHANGED <<clock, notifVars, checkoutVars, storeVars,
                   settingsVars, commentVars,
                   authVars,
                   exportVars,
                   catalogVars,
                   trackVars,
                   pagingVars,
                   loginsVars>>

\* users/route.ts, lines 68-102: line 80 reads .metadata of undefined.
UsersGET_v2 ==
    /\ \E role \in RoleInputs :
       \E users \in FindManyOutcomes(UsersFindMany(RoleWhere(role))) :
        /\ req' = [op |-> "GET_users", variant |-> "route_v2", role |-> role,
                   dbUndefined |-> ~users.defined]
        /\ resp' = Uncaught("GET_users", "route_v2", "TypeError: metadata")
    /\ UNCHANGED <<clock, notifVars, checkoutVars, storeVars,
                   settingsVars, commentVars,
                   authVars,
                   exportVars,
                   catalogVars,
                   trackVars,
                   pagingVars,
                   loginsVars>>

\* part_008, lines 7-39: users.map with no check.
UsersGET_part008 ==
    /\ \E role \in RoleInputs :
       \E users \in FindManyOutcomes(UsersFindMany(RoleWhere(role))) :
        /\ req' = [op |-> "GET_users", variant |-> "part_008", role |-> role,
                   dbUndefined |-> ~users.defined]
        /\ resp' = IF ~users.defined
                   THEN Uncaught("GET_users", "part_008", "TypeError: map")
                   ELSE UsersResponse("part_008", users)
    /\ UNCHANGED <<clock, notifVars, checkoutVars, storeVars,
                   settingsVars, commentVars,
                   authVars,
                   exportVars,
                   catalogVars,
                   trackVars,
                   pagingVars,
                   loginsVars>>

\* analytics/route.ts, lines 29-95: line 39 calls toUpperCase on a number,
\* after both findMany calls and before users.length is read.
AnalyticsGET ==
    /\ \E period \in {Null, "current", "2024-02"}, compare \in BOOLEAN :
       \E users \in FindManyOutcomes(UsersFindMany(RoleWhere(Null))),
          products \in FindManyOutcomes(
              ProductsFindMany(RoleWhere(Null), NoOrder, Undefined, 0, 0)) :
        /\ req' = [op |-> "GET_analytics", variant |-> "route",
                   period |-> period, compare |-> compare,
                   dbUndefined |-> ~users.defined \/ ~products.defined]
        /\ resp' = Uncaught("GET_analytics", "route", "TypeError: toUpperCase")
    /\ UNCHANGED <<clock, notifVars, checkoutVars, storeVars,
                   settingsVars, commentVars,
                   authVars,
                   exportVars,
                   catalogVars,
                   trackVars,
                   pagingVars,
                   loginsVars>>

\* The page-view store, lines 189-193, as a function from its keys.
pageViewsSeed ==
    [k \in {"/", "/products", "/dashboard"} |->
        [pageId |-> k,
         count |-> CASE k = "/" -> 1420 [] k = "/products" -> 873
                     [] k = "/dashboard" -> 2104,
         lastViewedAt |-> 20]]

PageIds == {"/", "/about"}

\* pageViewsStore.set(key, value)
MapSet(map, key, value) ==
    [k \in DOMAIN map \cup {key} |-> IF k = key THEN value ELSE map[k]]

\* db.pageViews.findUnique, lines 327-332: returns null whatever is stored.
PageViewsFindUnique_Lookup(store, pageId) ==
    IF pageId \in DOMAIN store THEN store[pageId] ELSE NullRecord

PageViewsFindUnique(store, pageId) == NullRecord

PageViewsFindUniqueCall ==
    /\ \E pageId \in PageIds :
        /\ req' = [op |-> "pageViews.findUnique", key |-> pageId]
        /\ resp' = [op |-> "pageViews.findUnique", threw |-> FALSE,
                    result |-> PageViewsFindUnique(pageViewsStore, pageId)]
    /\ UNCHANGED <<clock, notifVars, checkoutVars, storeVars,
                   settingsVars, commentVars,
                   authVars,
                   exportVars,
                   catalogVars,
                   trackVars,
                   pagingVars,
                   loginsVars>>

\* db.pageViews.create, lines 334-343: the unique constraint on pageId.
PageViewsCreateRejects_NoConstraint(store, data) == FALSE

PageViewsCreateRejects(store, data) == data.pageId \in DOMAIN store

PageViewInputs == [pageId : PageIds, count : {1}, lastViewedAt : {clock}]

PageViewsCreateCall ==
    /\ \E data \in PageViewInputs :
        /\ req' = [op |-> "pageViews.create", data |-> data]
        /\ IF PageViewsCreateRejects(pageViewsStore, data)
           THEN /\ resp' = [op |-> "pageViews.create", threw |-> TRUE,
                            error |-> "Unique constraint failed"]
                /\ UNCHANGED pageViewsStore
           ELSE /\ pageViewsStore' = MapSet(pageViewsStore, data.pageId, data)
                /\ resp' = [op |-> "pageViews.create", threw |-> FALSE,
                            result |-> data]
    /\ UNCHANGED <<clock, notifVars, checkoutVars, settingsVars, commentVars,
                   authVars,
                   exportVars,
                   catalogVars,
                   trackVars,
                   pagingVars,
                   loginsVars>>

\* The data of update and the update of upsert, key by key: a count that is
\* absent, a number or { increment: n }, and a lastViewedAt that is absent
\* or a Date.
CountUpdates == {[kind |-> "absent", v |-> 0], [kind |-> "number", v |-> 7],
                 [kind |-> "increment", v |-> 1],
                 [kind |-> "increment", v |-> 0]}

DateUpdates == {[given |-> FALSE, v |-> 0], [given |-> TRUE, v |-> clock]}

\* Partial<PageView> admits a pageId in the data as well: absent, or given.
PageIdUpdates == {[given |-> FALSE, v |-> "/"], [given |-> TRUE, v |-> "/about"]}

\* Counts the store is driven to: at most MaxIncrement above a seeded or a
\* written count.
BaseCounts == {1, 7} \cup {pageViewsSeed[k].count : k \in DOMAIN pageViewsSeed}

CountInReach(c) == \E b \in BaseCounts : c - b \in 0..MaxIncrement

\* db.pageViews.update, lines 345-354: { ...existing, ...options.data }.
PageViewsUpdated(existing, dataPageId, count, lastViewedAt) ==
    [pageId |-> IF dataPageId.given THEN dataPageId.v ELSE existing.pageId,
     count |-> IF count.kind = "number" THEN count.v ELSE existing.count,
     lastViewedAt |-> IF lastViewedAt.given THEN lastViewedAt.v
                      ELSE existing.lastViewedAt]

PageViewsUpdateCall ==
    /\ \E pageId \in PageIds, lastViewedAt \in DateUpdates,
          dataPageId \in PageIdUpdates,
          count \in {c \in CountUpdates : c.kind # "increment"} :
        /\ req' = [op |-> "pageViews.update", key |-> pageId,
                   pageId |-> dataPageId,
                   count |-> count, lastViewedAt |-> lastViewedAt]
        /\ IF pageId \notin DOMAIN pageViewsStore
           THEN /\ resp' = [op |-> "pageViews.update", threw |-> TRUE,
                            error |-> "Record not found"]
                /\ UNCHANGED pageViewsStore
           ELSE LET updated == PageViewsUpdated(pageViewsStore[pageId],
                                                dataPageId, count,
                                                lastViewedAt)
                IN  /\ pageViewsStore' = MapSet(pageViewsStore, pageId, updated)
                    /\ resp' = [op |-> "pageViews.update", threw |-> FALSE,
                                result |-> updated]
    /\ UNCHANGED <<clock, notifVars, checkoutVars, settingsVars, commentVars,
                   authVars,
                   exportVars,
                   catalogVars,
                   trackVars,
                   pagingVars,
                   loginsVars>>

\* db.pageViews.upsert, lines 363-372: the count written for an existing
\* record is existing.count plus a truthy increment, existing.count
\* otherwise; lastViewedAt is update.lastViewedAt ?? existing.lastViewedAt.
PageViewsUpserted(existing, updatePageId, count, lastViewedAt) ==
    [pageId |-> IF updatePageId.given THEN updatePageId.v
                ELSE existing.pageId,
     count |-> IF count.kind = "increment" /\ count.v # 0
               THEN existing.count + count.v ELSE existing.count,
     lastViewedAt |-> IF lastViewedAt.given THEN lastViewedAt.v
                      ELSE existing.lastViewedAt]

\* db.pageViews.upsert, lines 356-376.
PageViewsUpsertCall ==
    /\ \E pageId \in PageIds, count \in CountUpdates,
          lastViewedAt \in DateUpdates, updatePageId \in PageIdUpdates,
          create \in PageViewInputs :
            /\ req' = [op |-> "pageViews.upsert", key |-> pageId,
                       pageId |-> updatePageId, create |-> create,
                       count |-> count, lastViewedAt |-> lastViewedAt]
            /\ IF pageId \in DOMAIN pageViewsStore
               THEN LET updated == PageViewsUpserted(pageViewsStore[pageId],
                                                     updatePageId, count,
                                                     lastViewedAt)
                    IN  /\ CountInReach(updated.count)
                        /\ pageViewsStore' =
                               MapSet(pageViewsStore, pageId, updated)
                        /\ resp' = [op |-> "pageViews.upsert",
                                    threw |-> FALSE, result |-> updated]
               ELSE /\ pageViewsStore' =
                           MapSet(pageViewsStore, create.pageId, create)
                    /\ resp' = [op |-> "pageViews.upsert", threw |-> FALSE,
                                result |-> create]
    /\ UNCHANGED <<clock, notifVars, checkoutVars, settingsVars, commentVars,
                   authVars,
                   exportVars,
                   catalogVars,
                   trackVars,
                   pagingVars,
                   loginsVars>>

(***************************************************************************)
(* src/unnamed/part_011, lines 92-393: /api/settings.  An object is a      *)
(* function from its keys; a nested object is a function as well.          *)
(***************************************************************************)
\* { ...a, ...b }: the keys of both, b's value where b has the key.
Spread(a, b) ==
    [k \in DOMAIN a \cup DOMAIN b |-> IF k \in DOMAIN b THEN b[k] ELSE a[k]]

EmptyObject == [k \in {} |-> Undefined]

defaultSettings ==
    [theme |-> "system", language |-> "en-US", timezone |-> "UTC",
     notifications |-> [email |-> TRUE, push |-> FALSE, sms |-> FALSE,
                        marketing |-> FALSE],
     privacy |-> [profileVisible |-> TRUE, showEmail |-> FALSE,
                  showActivity |-> TRUE],
     preferences |-> EmptyObject]

settingsSeed ==
    [u \in {"usr_1a2b3c"} |->
        [userId |-> "usr_1a2b3c", theme |-> "dark", language |-> "en-US",
         timezone |-> "America/Los_Angeles",
         notifications |-> [email |-> TRUE, push |-> TRUE, sms |-> FALSE,
                            marketing |-> FALSE],
         privacy |-> [profileVisible |-> TRUE, showEmail |-> FALSE,
                      showActivity |-> TRUE],
         preferences |-> [itemsPerPage |-> 25, defaultView |-> "grid"],
         updatedAt |-> 15]]

SettingsUserInputs == {"usr_1a2b3c", "usr_4d5e6f", "usr_unknown", Undefined}

\* { ...defaultSettings, userId, updatedAt: new Date() }
FreshSettings(userId) ==
    Spread(defaultSettings, [userId |-> userId, updatedAt |-> clock])

\* GET, lines 163-220: creates and stores the defaults for a user without
\* settings.
SettingsGET ==
    /\ \E userId \in SettingsUserInputs,
          section \in {Null, "notifications", "theme", "bogus"} :
        /\ req' = [op |-> "GET_settings", userId |-> userId,
                   section |-> section]
        /\ IF ~Truthy(userId)
           THEN /\ resp' = [op |-> "GET_settings", threw |-> FALSE,
                            status |-> 400, success |-> FALSE]
                /\ UNCHANGED settingsStore
           ELSE IF UsersFindUnique(userId) = NullRecord
           THEN /\ resp' = [op |-> "GET_settings", threw |-> FALSE,
                            status |-> 404, success |-> FALSE]
                /\ UNCHANGED settingsStore
           ELSE LET settings == IF userId \in DOMAIN settingsStore
                                THEN settingsStore[userId]
                                ELSE FreshSettings(userId)
                IN  /\ settingsStore' = MapSet(settingsStore, userId, settings)
                    /\ resp' =
                         IF Truthy(section) /\ section \notin DOMAIN settings
                         THEN [op |-> "GET_settings", threw |-> FALSE,
                               status |-> 400, success |-> FALSE]
                         ELSE [op |-> "GET_settings", threw |-> FALSE,
                               status |-> 200, success |-> TRUE,
                               data |-> IF Truthy(section)
                                        THEN [k \in {section} |-> settings[k]]
                                        ELSE settings]
    /\ UNCHANGED <<clock, notifVars, checkoutVars, storeVars, commentVars,
                   authVars,
                   exportVars,
                   catalogVars,
                   trackVars,
                   pagingVars,
                   loginsVars>>

\* The partial objects a body carries for its top-level keys.
OnlyEmailOff == [k \in {"email"} |-> FALSE]

SettingsUpdates ==
    {EmptyObject,
     [k \in {"notifications"} |-> OnlyEmailOff],
     [k \in {"theme"} |-> "light"],
     [k \in {"theme"} |-> "neon"],
     [k \in {"timezone"} |-> "Mars/Olympus"],
     [notifications |-> OnlyEmailOff, theme |-> "light"]}

\* PUT, lines 223-261: { ...defaultSettings, ...newSettings, userId, updatedAt }.
SettingsPUT ==
    /\ \E userId \in SettingsUserInputs, newSettings \in SettingsUpdates :
        /\ req' = [op |-> "PUT_settings", userId |-> userId,
                   updates |-> newSettings]
        /\ IF ~Truthy(userId)
           THEN /\ resp' = [op |-> "PUT_settings", threw |-> FALSE,
                            status |-> 400, success |-> FALSE]
                /\ UNCHANGED settingsStore
           ELSE IF UsersFindUnique(userId) = NullRecord
           THEN /\ resp' = [op |-> "PUT_settings", threw |-> FALSE,
                            status |-> 404, success |-> FALSE]
                /\ UNCHANGED settingsStore
           ELSE LET settings ==
                      Spread(Spread(defaultSettings, newSettings),
                             [userId |-> userId, updatedAt |-> clock])
                IN  /\ settingsStore' = MapSet(settingsStore, userId, settings)
                    /\ resp' = [op |-> "PUT_settings", threw |-> FALSE,
                                status |-> 200, success |-> TRUE,
                                data |-> settings]
    /\ UNCHANGED <<clock, notifVars, checkoutVars, storeVars, commentVars,
                   authVars,
                   exportVars,
                   catalogVars,
                   trackVars,
                   pagingVars,
                   loginsVars>>

\* PATCH, line 276: (undefined as any).trim() raises a TypeError.
SanitizeUserIdThrows == TRUE

\* PATCH, lines 292-297: { ...settings, ...updates, userId, updatedAt }.
PatchedSettings(settings, updates, userId) ==
    Spread(Spread(settings, updates),
           [userId |-> userId, updatedAt |-> clock])

\* PATCH, lines 264-329.
SettingsPATCH ==
    /\ \E userId \in SettingsUserInputs, updates \in SettingsUpdates :
        /\ req' = [op |-> "PATCH_settings", userId |-> userId,
                   updates |-> updates]
        /\ IF ~Truthy(userId)
           THEN /\ resp' = [op |-> "PATCH_settings", threw |-> FALSE,
                            status |-> 400, success |-> FALSE]
                /\ UNCHANGED settingsStore
           ELSE IF SanitizeUserIdThrows
           THEN /\ resp' = [op |-> "PATCH_settings", threw |-> TRUE,
                            error |-> "TypeError: trim", status |-> 500,
                            success |-> FALSE]
                /\ UNCHANGED settingsStore
           ELSE IF "theme" \in DOMAIN updates
                   /\ updates["theme"] \notin {"light", "dark", "system"}
           THEN /\ resp' = [op |-> "PATCH_settings", threw |-> FALSE,
                            status |-> 400, success |-> FALSE]
                /\ UNCHANGED settingsStore
           ELSE LET settings == IF userId \in DOMAIN settingsStore
                                THEN settingsStore[userId]
                                ELSE FreshSettings(userId)
                    updated == PatchedSettings(settings, updates, userId)
                IN  /\ settingsStore' = MapSet(settingsStore, userId, updated)
                    /\ resp' = [op |-> "PATCH_settings", threw |-> FALSE,
                                status |-> 200, success |-> TRUE,
                                data |-> updated]
    /\ UNCHANGED <<clock, notifVars, checkoutVars, storeVars, commentVars,
                   authVars,
                   exportVars,
                   catalogVars,
                   trackVars,
                   pagingVars,
                   loginsVars>>

\* DELETE, lines 332-393: resets one section, or everything, to the defaults.
SettingsDELETE ==
    /\ \E userId \in SettingsUserInputs,
          section \in {Null, "notifications", "theme", "bogus"} :
        /\ req' = [op |-> "DELETE_settings", userId |-> userId,
                   section |-> section]
        /\ IF ~Truthy(userId)
           THEN /\ resp' = [op |-> "DELETE_settings", threw |-> FALSE,
                            status |-> 400, success |-> FALSE]
                /\ UNCHANGED settingsStore
           ELSE IF userId \notin DOMAIN settingsStore
           THEN /\ resp' = [op |-> "DELETE_settings", threw |-> FALSE,
                            status |-> 404, success |-> FALSE]
                /\ UNCHANGED settingsStore
           ELSE IF Truthy(section) /\ section \notin DOMAIN defaultSettings
           THEN /\ resp' = [op |-> "DELETE_settings", threw |-> FALSE,
                            status |-> 400, success |-> FALSE]
                /\ UNCHANGED settingsStore
           ELSE LET settings ==
                      IF Truthy(section)
                      THEN Spread(settingsStore[userId],
                                  Spread([k \in {section} |-> defaultSettings[k]],
                                         [updatedAt |-> clock]))
                      ELSE FreshSettings(userId)
                IN  /\ settingsStore' = MapSet(settingsStore, userId, settings)
                    /\ resp' = [op |-> "DELETE_settings", threw |-> FALSE,
                                status |-> 200, success |-> TRUE,
                                data |-> settings]
    /\ UNCHANGED <<clock, notifVars, checkoutVars, storeVars, commentVars,
                   authVars,
                   exportVars,
                   catalogVars,
                   trackVars,
                   pagingVars,
                   loginsVars>>

(***************************************************************************)
(* src/unnamed/part_012: /api/comments.  A comment's content is modelled   *)
(* by its length; an absent or empty content has length 0.                 *)
(***************************************************************************)
CommentId(n) == <<"cmt", n>>
NoParent == <<"none", 0>>            \* parentId: null

MaxContentLength == 1000

commentsSeed ==
    << [id |-> CommentId(-1), parentId |-> NoParent, entityType |-> "product",
        entityId |-> 1001, authorId |-> "usr_1a2b3c", contentLength |-> 32,
        createdAt |-> -2, edited |-> FALSE, likes |-> 5],
       [id |-> CommentId(-2), parentId |-> CommentId(-1),
        entityType |-> "product", entityId |-> 1001,
        authorId |-> "usr_4d5e6f", contentLength |-> 29,
        createdAt |-> -1, edited |-> FALSE, likes |-> 2] >>

ContentLengths == {0, 1, MaxContentLength, MaxContentLength + 1}
ParentInputs == {NoParent, CommentId(-1), CommentId(0), CommentId(-99)}

FindComment(store, id) == \E i \in DOMAIN store : store[i].id = id

\* line 127: !entityType || !entityId || !authorId || !content
MissingRequired(entityType, entityId, authorId, contentLength) ==
    \/ ~Truthy(entityType)
    \/ entityId = 0
    \/ ~Truthy(authorId)
    \/ contentLength = 0

\* line 136: content.length < 1 || content.length > 1000
BadContentLength_OffByOne(contentLength) ==
    contentLength < 1 \/ contentLength >= MaxContentLength

BadContentLength(contentLength) ==
    contentLength < 1 \/ contentLength > MaxContentLength

\* POST, lines 122-186.
CommentsPOSTWithin(cap) ==
    /\ \E entityType \in {Undefined, "product"}, entityId \in {0, 1001},
          authorId \in {Undefined, "usr_1a2b3c", "usr_unknown"},
          contentLength \in ContentLengths, parentId \in ParentInputs :
        /\ req' = [op |-> "POST_comments",
                   entityGiven |-> Truthy(entityType) /\ entityId # 0,
                   authorId |-> authorId, contentLength |-> contentLength,
                   parentId |-> parentId]
        /\ IF MissingRequired(entityType, entityId, authorId, contentLength)
           THEN /\ resp' = [op |-> "POST_comments", threw |-> FALSE,
                            status |-> 400, success |-> FALSE]
                /\ UNCHANGED commentsStore
           ELSE IF BadContentLength(contentLength)
           THEN /\ resp' = [op |-> "POST_comments", threw |-> FALSE,
                            status |-> 400, success |-> FALSE]
                /\ UNCHANGED commentsStore
           ELSE IF UsersFindUnique(authorId) = NullRecord
           THEN /\ resp' = [op |-> "POST_comments", threw |-> FALSE,
                            status |-> 404, success |-> FALSE]
                /\ UNCHANGED commentsStore
           ELSE IF parentId # NoParent /\ ~FindComment(commentsStore, parentId)
           THEN /\ resp' = [op |-> "POST_comments", threw |-> FALSE,
                            status |-> 404, success |-> FALSE]
                /\ UNCHANGED commentsStore
           ELSE LET comment ==
                      [id |-> CommentId(clock), parentId |-> parentId,
                       entityType |-> entityType, entityId |-> entityId,
                       authorId |-> authorId,
                       contentLength |-> contentLength, createdAt |-> clock,
                       edited |-> FALSE, likes |-> 0]
                IN  /\ Len(commentsStore) < Len(commentsSeed) + cap
                    /\ commentsStore' = Append(commentsStore, comment)
                    /\ resp' = [op |-> "POST_comments", threw |-> FALSE,
                                status |-> 200, success |-> TRUE]
    /\ UNCHANGED <<clock, notifVars, checkoutVars, storeVars, settingsVars,
                   authVars,
                   exportVars,
                   catalogVars,
                   trackVars,
                   pagingVars,
                   loginsVars>>

\* POST, lines 122-186, in a store that gains at most MaxCreated comments.
CommentsPOST == CommentsPOSTWithin(MaxCreated)

\* POST in a store that gains at most MaxPosted comments.
CommentsPOSTBurst == CommentsPOSTWithin(MaxPosted)

MaxLikes == 1            \* likes a comment may gain

\* commentsStore.find / findIndex: the index of the first comment with the
\* id, 0 when there is none.
CommentIndex(store, id) ==
    LET hits == {i \in DOMAIN store : store[i].id = id}
    IN  IF hits = {} THEN 0 ELSE CHOOSE i \in hits : \A j \in hits : i <= j

\* The ids PATCH and DELETE are asked for: none, a seed comment, an unknown.
PatchCommentIds == {NoParent, CommentId(-1), CommentId(-99)}

DeleteCommentIds == {NoParent, CommentId(-2), CommentId(-99)}

\* Lines 218-229: an edit is refused only when content is empty.
EditRefused(contentLength) == contentLength = 0

\* PATCH, lines 189-241.
CommentsPATCH ==
    /\ \E commentId \in PatchCommentIds, action \in {"like", "edit", "other"},
          contentLength \in {0, MaxContentLength + 1} :
        LET i == CommentIndex(commentsStore, commentId)
            answer(status) == [op |-> "PATCH_comments", threw |-> FALSE,
                               status |-> status, success |-> status = 200]
        IN  /\ req' = [op |-> "PATCH_comments", commentId |-> commentId,
                       action |-> action, contentLength |-> contentLength]
            /\ IF commentId = NoParent
               THEN resp' = answer(400) /\ UNCHANGED commentsStore
               ELSE IF i = 0
               THEN resp' = answer(404) /\ UNCHANGED commentsStore
               ELSE IF action = "like"
               THEN /\ commentsStore[i].likes < 5 + MaxLikes
                    /\ commentsStore' =
                          [commentsStore EXCEPT ![i].likes = @ + 1]
                    /\ resp' = answer(200)
               ELSE IF action = "edit"
               THEN IF EditRefused(contentLength)
                    THEN resp' = answer(400) /\ UNCHANGED commentsStore
                    ELSE /\ commentsStore' =
                              [commentsStore EXCEPT
                                 ![i].contentLength = contentLength,
                                 ![i].edited = TRUE]
                         /\ resp' = answer(200)
               ELSE resp' = answer(400) /\ UNCHANGED commentsStore
    /\ UNCHANGED <<clock, notifVars, checkoutVars, storeVars, settingsVars,
                   authVars, exportVars, catalogVars, trackVars, pagingVars,
                   loginsVars>>

\* commentsStore.splice(commentIndex, 1)
RemoveAt(store, i) ==
    SubSeq(store, 1, i - 1) \o SubSeq(store, i + 1, Len(store))

\* DELETE, lines 244-281.
CommentsDELETE ==
    /\ \E commentId \in DeleteCommentIds, userId \in {Null, "usr_1a2b3c"} :
        LET i == CommentIndex(commentsStore, commentId)
            answer(status) == [op |-> "DELETE_comments", threw |-> FALSE,
                               status |-> status, success |-> status = 200]
        IN  /\ req' = [op |-> "DELETE_comments", commentId |-> commentId,
                       userId |-> userId]
            /\ IF commentId = NoParent
               THEN resp' = answer(400) /\ UNCHANGED commentsStore
               ELSE IF i = 0
               THEN resp' = answer(404) /\ UNCHANGED commentsStore
               ELSE IF Truthy(userId) /\ commentsStore[i].authorId # userId
               THEN resp' = answer(403) /\ UNCHANGED commentsStore
               ELSE /\ commentsStore' = RemoveAt(commentsStore, i)
                    /\ resp' = answer(200)
    /\ UNCHANGED <<clock, notifVars, checkoutVars, storeVars, settingsVars,
                   authVars, exportVars, catalogVars, trackVars, pagingVars,
                   loginsVars>>

\* buildReplyTree, lines 111-119: the comments whose parentId is the id of
\* one of the comments at the indices in from.
RepliesOf(store, from) ==
    {j \in DOMAIN store : \E i \in from : store[j].parentId = store[i].id}

\* The comments buildReplyTree visits below comment i, to depth n.
RECURSIVE Descendants(_, _, _)
Descendants(store, from, n) ==
    IF n = 0 \/ from = {} THEN {}
    ELSE RepliesOf(store, from)
            \cup Descendants(store, RepliesOf(store, from), n - 1)

(***************************************************************************)
(* src/unnamed/part_006: /api/auth/login.  Lines 486-756 are the handlers  *)
(* modelled; lines 36-146 are the earlier POST.  Times are in seconds, the  *)
(* source's milliseconds divided by 1000.                                  *)
(***************************************************************************)
MAX_ATTEMPTS == 5

LOCKOUT_DURATION == 15 * 60

passwordStore ==
    [e \in {"sarah.chen@company.com", "marcus.johnson@company.com",
            "alex.rivera@company.com"} |->
        CASE e = "sarah.chen@company.com" -> "admin123"
          [] e = "marcus.johnson@company.com" -> "user456"
          [] e = "alex.rivera@company.com" -> "guest789"]

\* Line 609: rememberMe ? 30 days : 24 hours.
ExpiresIn(rememberMe) ==
    IF rememberMe THEN 30 * 24 * 60 * 60 ELSE 24 * 60 * 60

\* The instants requests are served at: the start, the end of the lockout
\* window that began at 0, and one second past the expiry of a 24-hour
\* session created at 0.
AuthInstants == {0, LOCKOUT_DURATION, ExpiresIn(FALSE) + 1}

AuthTimePasses ==
    /\ \E t \in AuthInstants : t > clock /\ clock' = t
    /\ UNCHANGED <<req, resp, notifVars, checkoutVars, storeVars,
                   settingsVars, commentVars, authVars,
                   exportVars,
                   catalogVars,
                   trackVars,
                   pagingVars,
                   loginsVars>>

\* sess_${Date.now()}_${random}: the random part is taken to differ from
\* every earlier draw, and is modelled by the number of sessions issued.
SessionToken(n) == <<"sess", clock, n>>
NoToken == <<"none", 0, 0>>
UnknownToken == <<"sess", 0, 0>>

MapDelete(map, key) == [k \in DOMAIN map \ {key} |-> map[k]]

AttemptsOf(email) ==
    IF email \in DOMAIN loginAttempts THEN loginAttempts[email] ELSE << >>

\* Lines 551-553: the attempts of the last LOCKOUT_DURATION.
RecentAttempts(attempts) ==
    SelectSeq(attempts, LAMBDA a : clock - a.timestamp < LOCKOUT_DURATION)

\* Line 557.
RateLimited_Never(attempts) == FALSE

RateLimited(attempts) == Len(RecentAttempts(attempts)) >= MAX_ATTEMPTS

RECURSIVE TotalAttempts(_)
TotalAttempts(attemptsMap) ==
    IF DOMAIN attemptsMap = {} THEN 0
    ELSE LET e == CHOOSE k \in DOMAIN attemptsMap : TRUE
         IN  Len(attemptsMap[e]) + TotalAttempts(MapDelete(attemptsMap, e))

\* Lines 577-578 and 594-595.
RecordFailure(email) ==
    MapSet(loginAttempts, email,
           Append(AttemptsOf(email),
                  [email |-> email, timestamp |-> clock, success |-> FALSE]))

LoginEmails == {"sarah.chen@company.com", "nobody@company.com"}
LoginPasswords == {EmptyString, "admin123", "wrong"}

LoginResponse(variant, status, token) ==
    [op |-> "POST_login", variant |-> variant, threw |-> FALSE,
     status |-> status, success |-> status = 200, token |-> token]

\* POST, lines 521-647.
LoginPOST ==
    /\ \E email \in LoginEmails, password \in LoginPasswords,
          rememberMe \in BOOLEAN :
        /\ req' = [op |-> "POST_login", variant |-> "part_006", email |-> email,
                   password |-> password]
        /\ IF ~Truthy(email) \/ ~Truthy(password)
           THEN /\ resp' = LoginResponse("part_006", 400, NoToken)
                /\ UNCHANGED authVars
           ELSE IF RateLimited(AttemptsOf(email))
           THEN /\ resp' = LoginResponse("part_006", 429, NoToken)
                /\ UNCHANGED authVars
           ELSE IF UsersFindMany([k \in {"email"} |-> email]) = << >>
           THEN /\ TotalAttempts(loginAttempts) < MaxAttemptLog
                /\ resp' = LoginResponse("part_006", 401, NoToken)
                /\ loginAttempts' = RecordFailure(email)
                /\ UNCHANGED <<activeSessions, issued, loggedOut>>
           ELSE IF email \notin DOMAIN passwordStore
                   \/ password # passwordStore[email]
           THEN /\ TotalAttempts(loginAttempts) < MaxAttemptLog
                /\ resp' = LoginResponse("part_006", 401, NoToken)
                /\ loginAttempts' = RecordFailure(email)
                /\ UNCHANGED <<activeSessions, issued, loggedOut>>
           ELSE LET token == SessionToken(Cardinality(issued) + 1)
                    session ==
                      [token |-> token,
                       userId |-> UsersFindMany([k \in {"email"} |-> email])[1].id,
                       expiresAt |-> clock + ExpiresIn(rememberMe),
                       createdAt |-> clock]
                IN  /\ Cardinality(issued) < MaxCreated
                    /\ activeSessions' = MapSet(activeSessions, token, session)
                    /\ loginAttempts' = MapDelete(loginAttempts, email)
                    /\ issued' = issued \cup {session}
                    /\ UNCHANGED loggedOut
                    /\ resp' = LoginResponse("part_006", 200, token)
    /\ UNCHANGED <<clock, notifVars, checkoutVars, storeVars, settingsVars,
                   commentVars,
                   exportVars,
                   catalogVars,
                   trackVars,
                   pagingVars,
                   loginsVars>>

\* The earlier POST, lines 36-146: line 44 calls find on null.
LoginPOST_v1 ==
    /\ \E email \in {"sarah.chen@company.com"},
          password \in {EmptyString, "admin123"} :
        /\ req' = [op |-> "POST_login", variant |-> "part_006_v1",
                   email |-> email, password |-> password]
        /\ resp' = [op |-> "POST_login", variant |-> "part_006_v1",
                    threw |-> TRUE, status |-> 500, success |-> FALSE,
                    token |-> NoToken]
    /\ UNCHANGED <<clock, notifVars, checkoutVars, storeVars, settingsVars,
                   commentVars, authVars,
                   exportVars,
                   catalogVars,
                   trackVars,
                   pagingVars,
                   loginsVars>>

\* The authorization header: absent, or a token after 'Bearer '.
AuthTokens == {s.token : s \in issued} \cup {UnknownToken}
AuthHeaders == {NoToken} \cup AuthTokens

\* new Date() > session.expiresAt
SessionExpired_Never(session) == FALSE

SessionExpired(session) == clock > session.expiresAt

\* DELETE, lines 650-698.
LogoutDELETE ==
    /\ \E token \in AuthHeaders :
        /\ req' = [op |-> "DELETE_login", variant |-> "part_006",
                   token |-> token]
        /\ IF token = NoToken \/ token \notin DOMAIN activeSessions
           THEN /\ resp' = [op |-> "DELETE_login", threw |-> FALSE,
                            status |-> 401, success |-> FALSE]
                /\ UNCHANGED authVars
           ELSE IF SessionExpired(activeSessions[token])
           THEN /\ resp' = [op |-> "DELETE_login", threw |-> FALSE,
                            status |-> 401, success |-> FALSE]
                /\ activeSessions' = MapDelete(activeSessions, token)
                /\ UNCHANGED <<loginAttempts, issued, loggedOut>>
           ELSE /\ resp' = [op |-> "DELETE_login", threw |-> FALSE,
                            status |-> 200, success |-> TRUE]
                /\ activeSessions' = MapDelete(activeSessions, token)
                /\ loggedOut' = loggedOut \cup {token}
                /\ UNCHANGED <<loginAttempts, issued>>
    /\ UNCHANGED <<clock, notifVars, checkoutVars, storeVars, settingsVars,
                   commentVars,
                   exportVars,
                   catalogVars,
                   trackVars,
                   pagingVars,
                   loginsVars>>

\* Lines 713-715: the session the check accepts, if any.
LiveSession(token) ==
    /\ token \in DOMAIN activeSessions
    /\ ~SessionExpired(activeSessions[token])

\* GET, lines 701-756.
SessionGET ==
    /\ \E token \in AuthHeaders :
        /\ req' = [op |-> "GET_login", variant |-> "part_006", token |-> token]
        /\ IF token = NoToken \/ ~LiveSession(token)
           THEN /\ resp' = [op |-> "GET_login", threw |-> FALSE,
                            status |-> 200, success |-> TRUE,
                            authenticated |-> FALSE]
                /\ UNCHANGED authVars
           ELSE IF UsersFindUnique(activeSessions[token].userId) = NullRecord
           THEN /\ resp' = [op |-> "GET_login", threw |-> FALSE,
                            status |-> 200, success |-> TRUE,
                            authenticated |-> FALSE]
                /\ activeSessions' = MapDelete(activeSessions, token)
                /\ UNCHANGED <<loginAttempts, issued, loggedOut>>
           ELSE /\ resp' = [op |-> "GET_login", threw |-> FALSE,
                            status |-> 200, success |-> TRUE,
                            authenticated |-> TRUE]
                /\ UNCHANGED authVars
    /\ UNCHANGED <<clock, notifVars, checkoutVars, storeVars, settingsVars,
                   commentVars,
                   exportVars,
                   catalogVars,
                   trackVars,
                   pagingVars,
                   loginsVars>>

(***************************************************************************)
(* src/unnamed/part_007, lines 145-402: /api/export                        *)
(***************************************************************************)
ExportJobId(t) == <<"export", t>>
NoJobId == <<"none", 0>>

validEntities == {"users", "products", "orders"}
validFormats == {"json", "csv", "xml"}

ExportEntities == {Undefined, "users", "products", "orders", "bogus"}
ExportFormats == {Undefined, "json", "csv", "xml", "pdf"}

\* Line 186: format || 'json'
ExportFormatOf(format) == IF Truthy(format) THEN format ELSE "json"

\* Line 172: (undefined as any).status.ready raises a TypeError.
QueueStatusThrows == TRUE

\* processExport, lines 232-256, up to its first await: the job is marked
\* processing; for orders nothing is awaited and the job runs to its end.
ExportStarted(job) ==
    IF job.entity = "orders"
    THEN [job EXCEPT !.status = "completed", !.progress = 100,
                     !.completedAt = clock, !.hasDownloadUrl = TRUE]
    ELSE [job EXCEPT !.status = "processing", !.progress = 10]

\* processExport, lines 245-298, after the awaited findMany has resolved.
ExportProcessResume(jobId) ==
    /\ jobId \in DOMAIN exportJobs
    /\ exportJobs[jobId].status = "processing"
    /\ exportJobs' =
          MapSet(exportJobs, jobId,
                 [exportJobs[jobId] EXCEPT !.status = "completed",
                                           !.progress = 100,
                                           !.completedAt = clock,
                                           !.hasDownloadUrl = TRUE])
    /\ UNCHANGED <<clock, req, resp, notifVars, checkoutVars, storeVars,
                   settingsVars, commentVars, authVars, exportRequested,
                   catalogVars,
                   trackVars,
                   pagingVars,
                   loginsVars>>

\* POST, lines 167-223.
ExportPOST ==
    /\ \E entity \in ExportEntities, format \in ExportFormats,
          hasFilters \in BOOLEAN :
        LET jobId == ExportJobId(clock)
            valid == entity \in validEntities
                        /\ ExportFormatOf(format) \in validFormats
            job == [id |-> jobId, entity |-> entity,
                    format |-> ExportFormatOf(format), status |-> "pending",
                    progress |-> 0, hasDownloadUrl |-> FALSE,
                    createdAt |-> clock, completedAt |-> 0,
                    error |-> Null]
        IN  /\ req' = [op |-> "POST_export", entity |-> entity,
                       format |-> format, hasFilters |-> hasFilters,
                       jobId |-> jobId]
            /\ exportRequested' =
                  IF valid THEN exportRequested \cup {jobId}
                  ELSE exportRequested
            /\ IF QueueStatusThrows
               THEN /\ resp' = [op |-> "POST_export", threw |-> TRUE,
                                status |-> 500, success |-> FALSE,
                                jobId |-> NoJobId]
                    /\ UNCHANGED exportJobs
               ELSE IF ~valid
               THEN /\ resp' = [op |-> "POST_export", threw |-> FALSE,
                                status |-> 400, success |-> FALSE,
                                jobId |-> NoJobId]
                    /\ UNCHANGED exportJobs
               ELSE /\ exportJobs' = MapSet(exportJobs, jobId, ExportStarted(job))
                    /\ resp' = [op |-> "POST_export", threw |-> FALSE,
                                status |-> 200, success |-> TRUE,
                                jobId |-> jobId]
    /\ UNCHANGED <<clock, notifVars, checkoutVars, storeVars, settingsVars,
                   commentVars, authVars,
                   catalogVars,
                   trackVars,
                   pagingVars,
                   loginsVars>>

ExportJobIdInputs == {NoJobId, ExportJobId(-1)}
                        \cup {ExportJobId(t) : t \in 0..MaxClock}

\* GET, lines 336-365.
ExportGET ==
    /\ \E jobId \in ExportJobIdInputs :
        /\ req' = [op |-> "GET_export", jobId |-> jobId]
        /\ resp' = IF jobId = NoJobId
                   THEN [op |-> "GET_export", threw |-> FALSE, status |-> 200,
                         success |-> TRUE, jobs |-> DOMAIN exportJobs,
                         jobStatus |-> "list"]
                   ELSE IF jobId \notin DOMAIN exportJobs
                   THEN [op |-> "GET_export", threw |-> FALSE, status |-> 404,
                         success |-> FALSE, jobs |-> {},
                         jobStatus |-> "none"]
                   ELSE [op |-> "GET_export", threw |-> FALSE, status |-> 200,
                         success |-> TRUE, jobs |-> {jobId},
                         jobStatus |-> exportJobs[jobId].status]
    /\ UNCHANGED <<clock, notifVars, checkoutVars, storeVars, settingsVars,
                   commentVars, authVars, exportVars,
                   catalogVars,
                   trackVars,
                   pagingVars,
                   loginsVars>>

\* DELETE, lines 368-402.
ExportDELETE ==
    /\ \E jobId \in ExportJobIdInputs :
        /\ req' = [op |-> "DELETE_export", jobId |-> jobId]
        /\ IF jobId = NoJobId
           THEN /\ resp' = [op |-> "DELETE_export", threw |-> FALSE,
                            status |-> 400, success |-> FALSE]
                /\ UNCHANGED exportVars
           ELSE IF jobId \notin DOMAIN exportJobs
           THEN /\ resp' = [op |-> "DELETE_export", threw |-> FALSE,
                            status |-> 404, success |-> FALSE]
                /\ UNCHANGED exportVars
           ELSE /\ resp' = [op |-> "DELETE_export", threw |-> FALSE,
                            status |-> 200, success |-> TRUE]
                /\ exportJobs' = MapDelete(exportJobs, jobId)
                /\ exportRequested' = exportRequested \ {jobId}
    /\ UNCHANGED <<clock, notifVars, checkoutVars, storeVars, settingsVars,
                   commentVars, authVars,
                   catalogVars,
                   trackVars,
                   pagingVars,
                   loginsVars>>

(***************************************************************************)
(* GET /api/products/{id}: src/app/api/products/[id]/route.ts and its two  *)
(* other snapshots, src/unnamed/part_010 and src/unnamed/part_011.         *)
(***************************************************************************)
MaxIdLen == 4            \* longest path id tried, in characters after a sign

IdChars == {"0", "1", "a"}

\* params.id: the strings over IdChars, bare or after a minus sign, as
\* sequences of characters.
UnsignedIdStrings == UNION {[1..n -> IdChars] : n \in 0..MaxIdLen}

IdStrings == UnsignedIdStrings \cup {<<"-">> \o str : str \in UnsignedIdStrings}

Digits == {"0", "1", "2", "3", "4", "5", "6", "7", "8", "9"}

DigitValue(c) ==
    CASE c = "0" -> 0 [] c = "1" -> 1 [] c = "2" -> 2 [] c = "3" -> 3
      [] c = "4" -> 4 [] c = "5" -> 5 [] c = "6" -> 6 [] c = "7" -> 7
      [] c = "8" -> 8 [] c = "9" -> 9

NaN == [nan |-> TRUE, v |-> 0]

Num(n) == [nan |-> FALSE, v |-> n]

\* The value of the longest prefix of digits of str, continuing from acc.
RECURSIVE DigitPrefix(_, _)
DigitPrefix(str, acc) ==
    IF str = << >> \/ Head(str) \notin Digits THEN acc
    ELSE DigitPrefix(Tail(str), 10 * acc + DigitValue(Head(str)))

\* parseInt(string): an optional sign, then the longest prefix of digits;
\* NaN when there is no digit there.
ParseInt(str) ==
    LET neg == str # << >> /\ Head(str) = "-"
        body == IF neg THEN Tail(str) ELSE str
    IN  IF body = << >> \/ Head(body) \notin Digits THEN NaN
        ELSE Num(IF neg THEN 0 - DigitPrefix(body, 0) ELSE DigitPrefix(body, 0))

IsNaN(x) == x.nan

\* db.products.findUnique({ where: { id } }) with a parsed id: NaN === id
\* is false for every row.
ProductsFindUniqueParsed(x) ==
    IF IsNaN(x) THEN NullRecord ELSE ProductsFindUnique(x.v)

\* What the store was asked: nothing, NaN or a number.
LookupKind(x) == IF IsNaN(x) THEN "nan" ELSE "number"

\* Lines 54-62: the inventory block of the response, when asked for.
InventoryStatus(productId, includeInventory) ==
    IF includeInventory
    THEN [inStock |-> CheckAvailability(productId, 1).available,
          quantity |-> CheckAvailability(productId, 1).currentStock,
          lowStock |-> CheckAvailability(productId, 1).currentStock < 10]
    ELSE NullRecord

\* The response once the product was looked up (lines 26-68).
ProductLookupResponse(variant, x, includeInventory) ==
    IF ProductsFindUniqueParsed(x) = NullRecord
    THEN [op |-> "GET_product", variant |-> variant, status |-> 404,
          success |-> FALSE, lookup |-> LookupKind(x)]
    ELSE [op |-> "GET_product", variant |-> variant, status |-> 200,
          success |-> TRUE, lookup |-> LookupKind(x), id |-> x.v,
          sku |-> ProductsFindUniqueParsed(x).sku,
          price |-> ProductsFindUniqueParsed(x).price,
          inventory |-> InventoryStatus(x.v, includeInventory)]

\* products/[id]/route.ts, lines 15-24: if (isNaN(productId)) answers 400.
RejectsId_NoCheck(x) == FALSE

RejectsId(x) == IsNaN(x)

\* products/[id]/route.ts, lines 7-69.
ProductGET ==
    /\ \E id \in IdStrings, includeInventory \in BOOLEAN :
        /\ req' = [op |-> "GET_product", variant |-> "route", id |-> id,
                   includeInventory |-> includeInventory]
        /\ resp' = IF RejectsId(ParseInt(id))
                   THEN [op |-> "GET_product", variant |-> "route",
                         status |-> 400, success |-> FALSE, lookup |-> "none"]
                   ELSE ProductLookupResponse("route", ParseInt(id),
                                              includeInventory)
    /\ UNCHANGED <<clock, notifVars, checkoutVars, storeVars,
                   settingsVars, commentVars,
                   authVars,
                   exportVars,
                   catalogVars,
                   trackVars,
                   pagingVars,
                   loginsVars>>

\* src/unnamed/part_010, lines 7-92: isNaN(productId) || productId <= 0.
ProductGET_part010 ==
    /\ \E id \in IdStrings, includeInventory \in BOOLEAN :
        /\ req' = [op |-> "GET_product", variant |-> "part_010", id |-> id,
                   includeInventory |-> includeInventory]
        /\ resp' = IF IsNaN(ParseInt(id)) \/ ParseInt(id).v <= 0
                   THEN [op |-> "GET_product", variant |-> "part_010",
                         status |-> 400, success |-> FALSE, lookup |-> "none"]
                   ELSE ProductLookupResponse("part_010", ParseInt(id),
                                              includeInventory)
    /\ UNCHANGED <<clock, notifVars, checkoutVars, storeVars,
                   settingsVars, commentVars,
                   authVars,
                   exportVars,
                   catalogVars,
                   trackVars,
                   pagingVars,
                   loginsVars>>

\* src/unnamed/part_011, lines 7-59: the parsed id is not validated.
ProductGET_part011 ==
    /\ \E id \in IdStrings, includeInventory \in BOOLEAN :
        /\ req' = [op |-> "GET_product", variant |-> "part_011", id |-> id,
                   includeInventory |-> includeInventory]
        /\ resp' = ProductLookupResponse("part_011", ParseInt(id),
                                              includeInventory)
    /\ UNCHANGED <<clock, notifVars, checkoutVars, storeVars,
                   settingsVars, commentVars,
                   authVars,
                   exportVars,
                   catalogVars,
                   trackVars,
                   pagingVars,
                   loginsVars>>

(***************************************************************************)
(* Time, the initial state and the specifications                          *)
(***************************************************************************)
Tick ==
    /\ clock < MaxClock
    /\ clock' = clock + 1
    /\ UNCHANGED <<req, resp, notifVars, checkoutVars, storeVars,
                   settingsVars, commentVars,
                   authVars,
                   exportVars,
                   catalogVars,
                   trackVars,
                   pagingVars,
                   loginsVars>>

NoRequest == [op |-> "none"]

\* Module initialisation apart from the orders table.
InitButOrders ==
    /\ clock = 0
    /\ req = NoRequest
    /\ resp = NoRequest
    /\ notificationsStore = notificationsSeed
    /\ reservations = << >>
    /\ ck = ckIdle
    /\ pageViewsStore = pageViewsSeed
    /\ settingsStore = settingsSeed
    /\ commentsStore = commentsSeed
    /\ loginAttempts = EmptyObject
    /\ activeSessions = EmptyObject
    /\ issued = {}
    /\ loggedOut = {}
    /\ exportJobs = EmptyObject
    /\ exportRequested = {}
    /\ productsStore = productsTable
    /\ tracking = [next |-> 0, inflight |-> {},
                   ok |-> [p \in PageIds |-> 0],
                   failed |-> [p \in PageIds |-> 0]]
    /\ paging = [state |-> "idle", limit |-> << >>, cursor |-> Null,
                 seen |-> << >>, requests |-> 0]
    /\ logins = [next |-> 1, arrays |-> EmptyObject, entry |-> 0,
                 inflight |-> {}, failed |-> {}, cleared |-> {}]

Init ==
    /\ InitButOrders
    /\ ordersTable = ordersSeed

(***************************************************************************)
(* GET /api/orders: src/app/api/checkout/route.ts, lines 172-191.          *)
(***************************************************************************)
MaxOrders == 2           \* longest orders table tried besides the seed

\* The orders a table may hold: the handler is read for every content of
\* the table, the seed among them.
OrderRows(n) ==
    [id : {<<"ord", n>>}, customer : {"alex.rivera@company.com"},
     total : {100, 200}, status : {"pending", "completed"},
     createdAt : {1, 2}]

OrderTables ==
    {ordersSeed} \cup
    UNION {{t \in [1..n -> UNION {OrderRows(k) : k \in 1..n}] :
               \A i \in 1..n : t[i].id = <<"ord", i>>} : n \in 0..MaxOrders}

InitOrders ==
    /\ InitButOrders
    /\ ordersTable \in OrderTables

\* Array.prototype.sort with (a, b) => b.total - a.total (line 187): stable.
RECURSIVE InsertByTotal(_, _)
InsertByTotal(sorted, row) ==
    IF sorted = << >> THEN <<row>>
    ELSE LET last == sorted[Len(sorted)]
         IN  IF row.total > last.total
             THEN Append(InsertByTotal(SubSeq(sorted, 1, Len(sorted) - 1), row),
                         last)
             ELSE Append(sorted, row)

RECURSIVE SortByTotal(_)
SortByTotal(rows) ==
    IF rows = << >> THEN << >>
    ELSE InsertByTotal(SortByTotal(SubSeq(rows, 1, Len(rows) - 1)),
                       rows[Len(rows)])

\* Lines 185-186: orders.reduce((sum, order) => sum + order.total, 0)
RECURSIVE SumTotals(_)
SumTotals(rows) ==
    IF rows = << >> THEN 0 ELSE Head(rows).total + SumTotals(Tail(rows))

\* Line 177: where: status ? { status } : undefined
StatusWhere(status) ==
    IF Truthy(status) THEN [k \in {"status"} |-> status] ELSE EmptyObject

\* Lines 176-181
OrdersFound(table, status) ==
    OrdersFindMany(table, StatusWhere(status),
                   [field |-> "createdAt", direction |-> "desc"], 50)

\* Line 187 sorts the array in place; summary.orders is that same array.
OrdersAsReturned(orders) == SortByTotal(orders)

StatusInputs == {Null, "pending", "completed", "cancelled"}

OrdersGET ==
    /\ \E status \in StatusInputs :
        LET orders == OrdersFound(ordersTable, status)
        IN  /\ req' = [op |-> "GET_orders", status |-> status]
            /\ resp' =
                 IF orders = << >>
                 THEN [op |-> "GET_orders", threw |-> TRUE, status |-> 500,
                       orders |-> << >>, totalRevenue |-> 0,
                       topCustomer |-> Undefined]
                 ELSE [op |-> "GET_orders", threw |-> FALSE, status |-> 200,
                       orders |-> OrdersAsReturned(orders),
                       totalRevenue |-> SumTotals(orders),
                       topCustomer |-> SortByTotal(orders)[1].customer]
    /\ UNCHANGED <<clock, notifVars, checkoutVars, storeVars, settingsVars,
                   commentVars, authVars, exportVars, catalogVars, trackVars,
                   pagingVars,
                   loginsVars>>

NextOrders ==
    \/ OrdersGET
    \/ Tick

SpecOrders == InitOrders /\ [][NextOrders]_vars

NextNotifications ==
    \/ NotificationsPOST
    \/ NotificationsPATCH
    \/ Tick

SpecNotifications == Init /\ [][NextNotifications]_vars

NextCheckout ==
    \/ CheckoutReceive
    \/ ReservationResolve
    \/ PaymentResolve
    \/ CheckoutContinue
    \/ Tick

SpecCheckout == Init /\ [][NextCheckout]_vars

(***************************************************************************)
(* GET /api/products, the paginated list: src/unnamed/part_009.            *)
(***************************************************************************)
\* searchParams.get('limit'): absent, or a string.
LimitInputs == {<< >>, <<"0">>, <<"1">>, <<"2">>, <<"3">>, <<"x">>,
                <<"-", "1">>, <<"-", "2">>}

\* Line 9: parseInt(searchParams.get('limit') || '20')
ListLimit(param) == ParseInt(IF param = << >> THEN <<"2", "0">> ELSE param)

ListCursors == {Null, "prod_003", "prod_002", "prod_999"}

\* Lines 11-16: take is limit + 1 (NaN + 1 is NaN, which findMany skips).
ListProducts(cursor, limit) ==
    ProductsFindMany(EmptyObject, [field |-> "createdAt", direction |-> "desc"],
                     cursor, 0, IF IsNaN(limit) THEN 0 ELSE limit.v + 1)

\* Line 18: products.length > limit is false when limit is NaN.
ListHasMore(products, limit) == ~IsNaN(limit) /\ Len(products) > limit.v

\* Line 19
ListItems(products, limit) ==
    IF ListHasMore(products, limit) THEN SliceTake(products, limit.v)
    ELSE products

\* Line 27: p.category.name raises a TypeError when category is null.
CategoryNameThrows(p) == p.category = Null

\* Lines 18-32: the response to a request with this cursor and limit.
ListResponse(cursor, param) ==
    LET limit == ListLimit(param)
        products == ListProducts(cursor, limit)
        hasMore == ListHasMore(products, limit)
        items == ListItems(products, limit)
    IN  IF hasMore /\ items = << >>
        THEN Uncaught("GET_products", "part_009", "TypeError: id")
        ELSE IF \E i \in DOMAIN items : CategoryNameThrows(items[i])
        THEN Uncaught("GET_products", "part_009", "TypeError: name")
        ELSE [op |-> "GET_products", variant |-> "part_009",
              threw |-> FALSE, status |-> 200, success |-> TRUE,
              items |-> RowIds(items),
              nextCursor |-> IF hasMore THEN items[Len(items)].id ELSE Null,
              hasMore |-> hasMore]

ProductsListGET ==
    /\ \E cursor \in ListCursors, param \in LimitInputs :
        /\ req' = [op |-> "GET_products", cursor |-> cursor, limit |-> param]
        /\ resp' = ListResponse(cursor, param)
    /\ UNCHANGED <<clock, notifVars, checkoutVars, storeVars, settingsVars,
                   commentVars, authVars, exportVars, catalogVars, trackVars,
                   pagingVars,
                   loginsVars>>

MaxPages == 5            \* requests one paging client makes

\* A client pages through the list: the first request carries no cursor and
\* a limit of at least 1, each later one the nextCursor of the response
\* before it; the client stops on hasMore = false or on an error.
PagingGET ==
    /\ paging.state \in {"idle", "more"}
    /\ paging.requests < MaxPages
    /\ \E param \in {<<"1">>, <<"2">>, <<"3">>} :
        /\ paging.state = "more" => param = paging.limit
        /\ LET answer == ListResponse(paging.cursor, param)
           IN  /\ req' = [op |-> "GET_products", cursor |-> paging.cursor,
                          limit |-> param]
               /\ resp' = answer
               /\ paging' =
                    IF answer.threw
                    THEN [paging EXCEPT !.state = "failed", !.limit = param,
                                        !.requests = @ + 1]
                    ELSE [state |-> IF answer.hasMore THEN "more" ELSE "done",
                          limit |-> param,
                          cursor |-> answer.nextCursor,
                          seen |-> paging.seen \o answer.items,
                          requests |-> paging.requests + 1]
    /\ UNCHANGED <<clock, notifVars, checkoutVars, storeVars, settingsVars,
                   commentVars, authVars, exportVars, catalogVars, trackVars,
                   loginsVars>>

NextPaging ==
    \/ PagingGET
    \/ ProductsListGET
    \/ Tick

SpecPaging == Init /\ [][NextPaging]_vars

(***************************************************************************)
(* PATCH /api/products/{id}: src/app/api/products/[id]/route.ts, lines     *)
(* 72-101 (src/unnamed/part_011, lines 62-91, is the same handler) and     *)
(* src/unnamed/part_010, lines 95-143.                                     *)
(***************************************************************************)
PatchIds == {<<"1", "0", "0", "4">>, <<"a">>}

\* request.json(): the fields the body carries.
PatchBodies == {[price |-> 1], [id |-> 9999, price |-> 1, inventory |-> 0]}

\* Lines 90-95: { ...existingProduct, ...body, id: productId, updatedAt }
UpdatedProduct(existingProduct, body, productId) ==
    Spread(Spread(existingProduct, body),
           [id |-> productId, updatedAt |-> clock])

\* Lines 88-89: the merged product is returned and written nowhere.
ProductsAfterPatch_Written(store, productId, updatedProduct) ==
    [store EXCEPT ![productId - 1000].price = updatedProduct.price,
                  ![productId - 1000].inventory = updatedProduct.inventory]

ProductsAfterPatch(store, productId, updatedProduct) == store

PatchResponse(variant, x, body) ==
    IF ProductsFindUniqueParsed(x) = NullRecord
    THEN [op |-> "PATCH_product", variant |-> variant, status |-> 404,
          success |-> FALSE]
    ELSE [op |-> "PATCH_product", variant |-> variant, status |-> 200,
          success |-> TRUE,
          data |-> UpdatedProduct(ProductsFindUniqueParsed(x), body, x.v)]

PatchedStore(x, body) ==
    IF ProductsFindUniqueParsed(x) = NullRecord THEN productsStore
    ELSE ProductsAfterPatch(productsStore, x.v,
             UpdatedProduct(ProductsFindUniqueParsed(x), body, x.v))

ProductPATCH ==
    /\ \E id \in PatchIds, body \in PatchBodies :
        /\ req' = [op |-> "PATCH_product", variant |-> "route", id |-> id,
                   body |-> body]
        /\ resp' = PatchResponse("route", ParseInt(id), body)
        /\ productsStore' = PatchedStore(ParseInt(id), body)
    /\ UNCHANGED <<clock, notifVars, checkoutVars, storeVars, settingsVars,
                   commentVars, authVars, exportVars,
                   trackVars,
                   pagingVars,
                   loginsVars>>

\* part_010, lines 100-110: isNaN(productId) || productId <= 0 answers 400.
ProductPATCH_part010 ==
    /\ \E id \in PatchIds, body \in PatchBodies :
        LET x == ParseInt(id)
            rejected == IsNaN(x) \/ x.v <= 0
        IN  /\ req' = [op |-> "PATCH_product", variant |-> "part_010",
                       id |-> id, body |-> body]
            /\ resp' = IF rejected
                       THEN [op |-> "PATCH_product", variant |-> "part_010",
                             status |-> 400, success |-> FALSE]
                       ELSE PatchResponse("part_010", x, body)
            /\ productsStore' = IF rejected THEN productsStore
                                ELSE PatchedStore(x, body)
    /\ UNCHANGED <<clock, notifVars, checkoutVars, storeVars, settingsVars,
                   commentVars, authVars, exportVars,
                   trackVars,
                   pagingVars,
                   loginsVars>>

NextCatalog ==
    \/ ProductPATCH
    \/ ProductPATCH_part010
    \/ CheckoutReceive
    \/ ReservationResolve
    \/ PaymentResolve
    \/ CheckoutContinue

SpecCatalog == Init /\ [][NextCatalog]_vars

NextProducts ==
    \/ ProductsListGET
    \/ ProductGET
    \/ ProductGET_part010
    \/ ProductGET_part011

SpecProducts == Init /\ [][NextProducts]_vars

NextQueries ==
    \/ UsersFindManyCall
    \/ ProductsFindManyCall
    \/ OrdersFindManyCall
    \/ UsersGET
    \/ UsersGET_v2
    \/ UsersGET_part008
    \/ AnalyticsGET

SpecQueries == Init /\ [][NextQueries]_vars

(***************************************************************************)
(* Page-view tracking: src/app/api/upload/route.ts, lines 190-214.         *)
(***************************************************************************)
MaxTrack == 3            \* tracking requests served

\* Lines 198-200: findUnique has resolved; the handler goes on to update
\* (lines 203-206) or to create (lines 209-211).
TrackWriteOf(existing, pageId) ==
    IF existing # NullRecord
    THEN [kind |-> "update", pageId |-> pageId, count |-> existing.count + 1]
    ELSE [kind |-> "create", pageId |-> pageId, count |-> 1]

\* Lines 190-200: the request is read, validated, and findUnique is called.
TrackPOST ==
    /\ tracking.next < MaxTrack
    /\ \E pageId \in PageIds \cup {Undefined} :
        /\ req' = [op |-> "POST_track", pageId |-> pageId]
        /\ IF ~Truthy(pageId)
           THEN /\ resp' = [op |-> "POST_track", threw |-> FALSE,
                            status |-> 400, views |-> 0]
                /\ tracking' = [tracking EXCEPT !.next = @ + 1]
           ELSE /\ resp' = [op |-> "POST_track", threw |-> FALSE,
                            status |-> 0, views |-> 0]
                /\ tracking' =
                     [tracking EXCEPT
                        !.next = @ + 1,
                        !.inflight = @ \cup {[n |-> tracking.next,
                                              pageId |-> pageId,
                                              phase |-> "read",
                                              write |-> NullRecord]}]
    /\ UNCHANGED <<clock, notifVars, checkoutVars, storeVars, settingsVars,
                   commentVars, authVars, exportVars, catalogVars,
                   pagingVars,
                   loginsVars>>

\* await db.pageViews.findUnique resolves and the handler picks its branch.
TrackRead ==
    /\ \E r \in tracking.inflight :
        /\ r.phase = "read"
        /\ tracking' =
             [tracking EXCEPT
                !.inflight = (@ \ {r}) \cup
                   {[r EXCEPT !.phase = "write",
                              !.write = TrackWriteOf(
                                  PageViewsFindUnique(pageViewsStore, r.pageId),
                                  r.pageId)]}]
    /\ UNCHANGED <<clock, req, resp, notifVars, checkoutVars, storeVars,
                   settingsVars, commentVars, authVars, exportVars,
                   catalogVars,
                   pagingVars,
                   loginsVars>>

\* The awaited update or create runs and the response is sent, or the
\* store's error ends the request.
TrackWrite ==
    /\ \E r \in tracking.inflight :
        /\ r.phase = "write"
        /\ req' = [op |-> "POST_track", pageId |-> r.pageId]
        /\ LET data == [pageId |-> r.pageId, count |-> r.write.count,
                        lastViewedAt |-> clock]
               throws ==
                 IF r.write.kind = "create"
                 THEN PageViewsCreateRejects(pageViewsStore, data)
                 ELSE r.pageId \notin DOMAIN pageViewsStore
           IN  IF throws
               THEN /\ resp' = [op |-> "POST_track", threw |-> TRUE,
                                status |-> 500, views |-> 0]
                    /\ UNCHANGED pageViewsStore
                    /\ tracking' =
                         [tracking EXCEPT !.inflight = @ \ {r},
                                          !.failed[r.pageId] = @ + 1]
               ELSE /\ pageViewsStore' = MapSet(pageViewsStore, r.pageId, data)
                    /\ resp' = [op |-> "POST_track", threw |-> FALSE,
                                status |-> 200, views |-> data.count]
                    /\ tracking' =
                         [tracking EXCEPT !.inflight = @ \ {r},
                                          !.ok[r.pageId] = @ + 1]
    /\ UNCHANGED <<clock, notifVars, checkoutVars, settingsVars, commentVars,
                   authVars, exportVars, catalogVars,
                   pagingVars,
                   loginsVars>>

NextTracking ==
    \/ TrackPOST
    \/ TrackRead
    \/ TrackWrite
    \/ Tick

SpecTracking == Init /\ [][NextTracking]_vars

NextStore ==
    \/ UsersFindUniqueCall
    \/ PageViewsFindUniqueCall
    \/ PageViewsCreateCall
    \/ PageViewsUpdateCall
    \/ PageViewsUpsertCall
    \/ Tick

SpecStore == Init /\ [][NextStore]_vars

NextSettings ==
    \/ SettingsGET
    \/ SettingsPUT
    \/ SettingsPATCH
    \/ SettingsDELETE
    \/ Tick

SpecSettings == Init /\ [][NextSettings]_vars

(***************************************************************************)
(* part_006, lines 521-647, as two steps: the handler runs to its await of *)
(* db.users.findMany (line 570) and resumes when it resolves.  Requests    *)
(* for one email within one lockout window.  An attempts array is an       *)
(* object: logins.arrays maps each array to the attempts pushed on it, and *)
(* logins.entry is the array loginAttempts holds for the email (0: none).  *)
(***************************************************************************)
MaxLogins == 6           \* login requests served

\* Lines 550-557: attempts = loginAttempts.get(email) || []; the request
\* goes on unless MAX_ATTEMPTS of them are recent.
LoginArrive ==
    /\ logins.next <= MaxLogins
    /\ \E passwordOk \in BOOLEAN :
        LET n == logins.next
            fresh == logins.entry = 0
            arr == IF fresh THEN n ELSE logins.entry
            recent == IF fresh THEN {} ELSE logins.arrays[arr]
        IN  /\ req' = [op |-> "POST_login", n |-> n, passwordOk |-> passwordOk]
            /\ IF Cardinality(recent) >= MAX_ATTEMPTS
               THEN /\ resp' = [op |-> "POST_login", n |-> n, status |-> 429]
                    /\ logins' = [logins EXCEPT !.next = n + 1]
               ELSE /\ resp' = [op |-> "POST_login", n |-> n, status |-> 0]
                    /\ logins' =
                         [logins EXCEPT
                            !.next = n + 1,
                            !.arrays = IF fresh THEN MapSet(@, arr, {}) ELSE @,
                            !.inflight = @ \cup {[n |-> n, arr |-> arr,
                                                  passwordOk |-> passwordOk]}]
    /\ UNCHANGED <<clock, notifVars, checkoutVars, storeVars, settingsVars,
                   commentVars, authVars, exportVars, catalogVars, trackVars,
                   pagingVars>>

\* Lines 570-640: findMany has resolved.  A wrong password pushes on the
\* array read before the await and sets it as the entry (lines 592-593); a
\* right one deletes the entry (line 624).
LoginResume ==
    /\ \E r \in logins.inflight :
        /\ req' = [op |-> "POST_login", n |-> r.n, passwordOk |-> r.passwordOk]
        /\ IF r.passwordOk
           THEN /\ resp' = [op |-> "POST_login", n |-> r.n, status |-> 200]
                /\ logins' = [logins EXCEPT !.inflight = @ \ {r},
                                            !.entry = 0,
                                            !.cleared = logins.failed]
           ELSE /\ resp' = [op |-> "POST_login", n |-> r.n, status |-> 401]
                /\ logins' = [logins EXCEPT !.inflight = @ \ {r},
                                            !.arrays[r.arr] = @ \cup {r.n},
                                            !.entry = r.arr,
                                            !.failed = @ \cup {r.n}]
    /\ UNCHANGED <<clock, notifVars, checkoutVars, storeVars, settingsVars,
                   commentVars, authVars, exportVars, catalogVars, trackVars,
                   pagingVars>>

NextLoginRace ==
    \/ LoginArrive
    \/ LoginResume

SpecLoginRace == Init /\ [][NextLoginRace]_vars

NextLogin ==
    \/ LoginPOST
    \/ LoginPOST_v1
    \/ AuthTimePasses

SpecLogin == Init /\ [][NextLogin]_vars

NextSessions ==
    \/ LoginPOST
    \/ LogoutDELETE
    \/ SessionGET
    \/ AuthTimePasses

SpecSessions == Init /\ [][NextSessions]_vars

NextExport ==
    \/ ExportPOST
    \/ ExportGET
    \/ ExportDELETE
    \/ Tick

SpecExport == Init /\ [][NextExport]_vars

NextComments ==
    \/ CommentsPOST
    \/ Tick

SpecComments == Init /\ [][NextComments]_vars

\* Requests served within one millisecond: the clock does not advance.
NextCommentStore ==
    \/ CommentsPOSTBurst
    \/ CommentsPATCH
    \/ CommentsDELETE

SpecCommentStore == Init /\ [][NextCommentStore]_vars

(***************************************************************************)
(* C1: a notification's read flag goes from false to true only in a PATCH  *)
(* whose body userId equals the notification's userId; a PATCH that omits  *)
(* userId changes no read flag.                                            *)
(***************************************************************************)
C1_ReadOnlyByOwner ==
    [][ /\ \A i \in DOMAIN notificationsStore :
              (~notificationsStore[i].read /\ notificationsStore'[i].read)
                  => /\ req'.op = "PATCH_notifications"
                     /\ req'.userId = notificationsStore[i].userId
        /\ (req'.op = "PATCH_notifications" /\ req'.userId = Undefined)
              => \A i \in DOMAIN notificationsStore :
                     notificationsStore'[i].read = notificationsStore[i].read
      ]_vars

\* usr_4d5e6f has marked its own notification by an id list, and the unread
\* notification of usr_1a2b3c is still unread.
C1_Witness ==
    /\ req.op = "PATCH_notifications"
    /\ req.userId = "usr_4d5e6f"
    /\ ~req.markAllRead
    /\ resp.success
    /\ resp.updated = 1
    /\ notificationsStore[3].read
    /\ ~notificationsStore[2].read

(***************************************************************************)
(* C2: POST /api/checkout answers with a success envelope, and creates an  *)
(* order, only if the payment of that request was approved; when the       *)
(* payment service declines the payment the response is 402 and no order   *)
(* is created.                                                             *)
(***************************************************************************)
C2_SuccessOnlyIfPaid ==
    /\ (resp.op = "POST_checkout" /\ resp.success) => ck.payment = "approved"
    /\ ck.orderCreated => ck.payment = "approved"
    /\ (ck.pc = "done" /\ ck.payment = "declined")
          => (resp.status = 402 /\ ~ck.orderCreated)

\* A request that reached the payment, whose payment was declined.
C2_Witness ==
    /\ ck.pc = "done"
    /\ ck.payment = "declined"
    /\ resp.op = "POST_checkout"
    /\ resp.status = 402
    /\ ordersTable = ordersSeed

(***************************************************************************)
(* C3: a checkout request with an existing customer, existing products in  *)
(* stock and a payment the payment service approves is answered, after the *)
(* payment result has arrived, with success = true, the created order's id *)
(* and the payment's transaction id, and not with 402.                     *)
(***************************************************************************)
C3_ApprovedCheckoutSucceeds ==
    (ck.pc = "done" /\ ck.payment = "approved")
        => /\ ck.examined = "approved"
           /\ resp.status = 200
           /\ resp.success
           /\ ck.orderCreated
           /\ resp.transactionId = "txn"

(***************************************************************************)
(* C4: GET /api/products/{id} with an id from which no integer can be      *)
(* parsed answers 400; the store is never asked for NaN and such an id is  *)
(* never answered 404.                                                     *)
(***************************************************************************)
C4_UnparsableIdIs400 ==
    (req.op = "GET_product" /\ IsNaN(ParseInt(req.id)))
        => /\ resp.status = 400
           /\ resp.lookup # "nan"

C8_FindUniqueReturnsStored ==
    /\ resp.op = "users.findUnique"
          => /\ ~resp.threw
             /\ \/ \E i \in DOMAIN usersTable :
                      usersTable[i].id = req.key /\ resp.result = usersTable[i]
                \/ /\ \A i \in DOMAIN usersTable : usersTable[i].id # req.key
                   /\ resp.result = NullRecord
    /\ resp.op = "pageViews.findUnique"
          => /\ ~resp.threw
             /\ resp.result = IF req.key \in DOMAIN pageViewsStore
                              THEN pageViewsStore[req.key] ELSE NullRecord

(***************************************************************************)
(* C9: pageViews.create with a pageId the store already holds fails with   *)
(* the unique-constraint error and leaves the store unchanged; with a new  *)
(* pageId it adds exactly that record and changes no other entry.          *)
(***************************************************************************)
C9_CreateIsUnique ==
    [][ req'.op = "pageViews.create" /\ clock' = clock
          => IF req'.data.pageId \in DOMAIN pageViewsStore
             THEN /\ resp'.threw
                  /\ resp'.error = "Unique constraint failed"
                  /\ pageViewsStore' = pageViewsStore
             ELSE /\ ~resp'.threw
                  /\ DOMAIN pageViewsStore' =
                        DOMAIN pageViewsStore \cup {req'.data.pageId}
                  /\ pageViewsStore'[req'.data.pageId] = req'.data
                  /\ \A k \in DOMAIN pageViewsStore :
                        pageViewsStore'[k] = pageViewsStore[k]
      ]_vars

\* A second create for /about was rejected and the first record is kept.
C9_Witness ==
    /\ resp.op = "pageViews.create"
    /\ resp.threw
    /\ req.data.pageId = "/about"
    /\ "/about" \in DOMAIN pageViewsStore
    /\ pageViewsStore["/about"] # req.data

(***************************************************************************)
(* C10: findMany on users, products and orders with a where filter and no  *)
(* paging returns exactly the rows whose listed fields equal the filter's  *)
(* values (all rows without a filter), in table order when no orderBy is   *)
(* given.                                                                  *)
(***************************************************************************)
C10_FindManyFilters ==
    LET table == CASE resp.op = "users.findMany" -> usersTable
                   [] resp.op = "products.findMany" -> productsTable
                   [] resp.op = "orders.findMany" -> ordersTable
        expected == RowIds(SelectSeq(table,
                        LAMBDA r : \A k \in DOMAIN req.where :
                                      r[k] = req.where[k]))
    IN  (/\ resp.op \in {"users.findMany", "products.findMany",
                         "orders.findMany"}
         /\ req.cursor = Undefined /\ req.skip = 0 /\ req.take = 0)
            => /\ {resp.rows[i] : i \in DOMAIN resp.rows}
                    = {expected[i] : i \in DOMAIN expected}
               /\ Len(resp.rows) = Len(expected)
               /\ req.orderBy = NoOrder => resp.rows = expected

(***************************************************************************)
(* C6: PATCH /api/settings with { userId, notifications: { email: false } }*)
(* for a user whose stored notifications are the full default set succeeds *)
(* with a shallow merge: the returned and the stored notifications are     *)
(* exactly { email: false }, every other top-level field keeps its stored  *)
(* value and userId is unchanged.                                          *)
(***************************************************************************)
C6_PatchShallowMerge ==
    [][ LET u == req'.userId
        IN  (/\ req'.op = "PATCH_settings" /\ clock' = clock
             /\ req'.updates = [k \in {"notifications"} |-> OnlyEmailOff]
             /\ u \in DOMAIN settingsStore
             /\ settingsStore[u].notifications = defaultSettings.notifications)
                => /\ resp'.success
                   /\ resp'.data = settingsStore'[u]
                   /\ settingsStore'[u].notifications = OnlyEmailOff
                   /\ settingsStore'[u].userId = u
                   /\ \A k \in DOMAIN settingsStore[u] \ {"notifications",
                                                           "updatedAt"} :
                         settingsStore'[u][k] = settingsStore[u][k]
      ]_vars

(***************************************************************************)
(* C7 as stated: POST /api/comments with the other required fields present *)
(* and an existing author answers 400 and leaves the store unchanged when  *)
(* content is longer than 1000 characters, and succeeds, appending exactly *)
(* one comment, when content has between 1 and 1000 characters.            *)
(***************************************************************************)
C7_PostStep ==
    /\ req'.op = "POST_comments" /\ clock' = clock
    /\ req'.entityGiven
    /\ UsersFindUnique(req'.authorId) # NullRecord

C7_TooLongRejected ==
    req'.contentLength > MaxContentLength
        => resp'.status = 400 /\ commentsStore' = commentsStore

C7_AppendsOne ==
    /\ resp'.success
    /\ Len(commentsStore') = Len(commentsStore) + 1
    /\ SubSeq(commentsStore', 1, Len(commentsStore)) = commentsStore
    /\ commentsStore'[Len(commentsStore')].contentLength = req'.contentLength

C11_ShallowMerge ==
    [][ (/\ req'.op \in {"pageViews.update", "pageViews.upsert"}
         /\ clock' = clock
         /\ req'.key \in DOMAIN pageViewsStore
         /\ req'.count.kind # "increment")
            => /\ ~resp'.threw
               /\ DOMAIN pageViewsStore' = DOMAIN pageViewsStore
               /\ pageViewsStore'[req'.key] =
                     [pageId |-> IF req'.pageId.given THEN req'.pageId.v
                                 ELSE pageViewsStore[req'.key].pageId,
                      count |-> IF req'.count.kind = "number"
                                THEN req'.count.v
                                ELSE pageViewsStore[req'.key].count,
                      lastViewedAt |->
                          IF req'.lastViewedAt.given THEN req'.lastViewedAt.v
                          ELSE pageViewsStore[req'.key].lastViewedAt]
               /\ resp'.result = pageViewsStore'[req'.key]
               /\ \A k \in DOMAIN pageViewsStore \ {req'.key} :
                     pageViewsStore'[k] = pageViewsStore[k]
      ]_vars

(***************************************************************************)
(* C12: in POST /api/checkout the stock reservation of every item has been *)
(* requested by the time the payment outcome is examined, and a request    *)
(* that ends with 402 leaves the reservations it made in place: no         *)
(* reservation is ever released or rolled back.                            *)
(***************************************************************************)
C12_ReservedItems(c, made) ==
    SelectSeq(made, LAMBDA r : r.request = c.n)
        = [i \in DOMAIN c.items |->
              [request |-> c.n, productId |-> c.items[i].productId,
               quantity |-> c.items[i].quantity]]

C12_ReservationsKept ==
    [][ /\ Len(reservations') >= Len(reservations)
        /\ SubSeq(reservations', 1, Len(reservations)) = reservations
        /\ (ck'.examined # "none"
            \/ (resp'.op = "POST_checkout" /\ resp'.status = 402))
              => C12_ReservedItems(ck', reservations')
      ]_vars

\* A two-item request whose payment was declined: answered 402 with both
\* reservations still made.
C12_Witness ==
    /\ ck.pc = "done"
    /\ ck.examined = "declined"
    /\ resp.op = "POST_checkout"
    /\ resp.status = 402
    /\ Len(ck.items) = 2
    /\ Len(reservations) = 2
    /\ C12_ReservedItems(ck, reservations)

(***************************************************************************)
(* C13: POST /api/auth/login, requests served one after another: once      *)
(* MAX_ATTEMPTS failed attempts for an email are recorded within the last  *)
(* LOCKOUT_DURATION, a login request for that email is answered 429, also  *)
(* with the correct password, creates no session and records no attempt;   *)
(* with fewer recent failed attempts the request is not answered 429.      *)
(***************************************************************************)
C13_RecentFailures(email) ==
    IF email \notin DOMAIN loginAttempts THEN 0
    ELSE Cardinality({i \in DOMAIN loginAttempts[email] :
                        /\ ~loginAttempts[email][i].success
                        /\ clock - loginAttempts[email][i].timestamp
                              < LOCKOUT_DURATION})

C14_AuthenticatedIffLive ==
    [][ (req'.op = "GET_login" /\ clock' = clock)
          => (resp'.authenticated
                <=> \E s \in issued :
                       /\ s.token = req'.token
                       /\ s.token \notin loggedOut
                       /\ ~(clock > s.expiresAt)
                       /\ UsersFindUnique(s.userId) # NullRecord)
      ]_vars

\* A session check with a token that was issued and then logged out.
C14_Witness ==
    /\ req.op = "GET_login"
    /\ req.token \in loggedOut
    /\ req.token \in {s.token : s \in issued}
    /\ ~resp.authenticated

C16_PostRegistersJob ==
    [][ (req'.op = "POST_export" /\ clock' = clock)
          => IF /\ req'.entity \in {"users", "products", "orders"}
                /\ req'.format \in {Undefined, "json", "csv", "xml"}
             THEN /\ resp'.success
                  /\ resp'.jobId = req'.jobId
                  /\ req'.jobId \in DOMAIN exportJobs'
                  /\ exportJobs'[req'.jobId].entity = req'.entity
                  /\ \A k \in DOMAIN exportJobs \ {req'.jobId} :
                        k \in DOMAIN exportJobs'
                          /\ exportJobs'[k] = exportJobs[k]
             ELSE /\ resp'.status = 400
                  /\ exportJobs' = exportJobs
      ]_vars

(***************************************************************************)
(* C17: findMany can return undefined instead of a collection: some        *)
(* findMany call on the users, products or orders table yields undefined.  *)
(***************************************************************************)
C17_FindManyYieldsUndefined ==
    \/ \E where \in UserWheres :
          ~FindManyResolved(UsersFindMany(where)).defined
    \/ \E where \in ProductWheres, orderBy \in OrderBys,
          cursorId \in {Undefined, "prod_002", "prod_999"},
          skip \in {0, 1}, take \in 0..MaxTake :
          ~FindManyResolved(ProductsFindMany(where, orderBy, cursorId,
                                             skip, take)).defined
    \/ \E where \in OrderWheres, orderBy \in OrderBys, take \in 0..MaxTake :
          ~FindManyResolved(OrdersFindMany(ordersTable, where, orderBy,
                                           take)).defined

(***************************************************************************)
(* C18: GET /api/products answers without a runtime error and with one     *)
(* item for every product of the requested page, also when a product of    *)
(* the page has no category.                                               *)
(***************************************************************************)
C18_ListReturnsEveryProduct ==
    resp.op = "GET_products"
        => /\ ~resp.threw
           /\ resp.items =
                 RowIds(ListItems(ListProducts(req.cursor, ListLimit(req.limit)),
                                  ListLimit(req.limit)))

(***************************************************************************)
(* C19: the products table is never modified: after any sequence of PATCH  *)
(* /api/products/{id}, POST /api/checkout and stock reservations every     *)
(* stored product, its inventory count included, equals its seed value, a  *)
(* GET reads the seed fields, and the id of a PATCH response is the path   *)
(* id whatever id the body carries.                                        *)
(***************************************************************************)
C19_ProductsNeverModified ==
    /\ productsStore = productsTable
    /\ tracking = [next |-> 0, inflight |-> {},
                   ok |-> [p \in PageIds |-> 0],
                   failed |-> [p \in PageIds |-> 0]]
    /\ \A id \in NumericProductIds :
          LET got == ProductLookupResponse("route", Num(id), TRUE)
          IN  /\ got.success
              /\ got.sku = productsTable[id - 1000].sku
              /\ got.price = productsTable[id - 1000].price
              /\ got.inventory.quantity = productsTable[id - 1000].inventory
    /\ (resp.op = "PATCH_product" /\ resp.success)
          => resp.data.id = ParseInt(req.id).v

\* A PATCH with an id, a price and an inventory count in its body was
\* answered with success, after a checkout had made its reservations.
C19_Witness ==
    /\ resp.op = "PATCH_product"
    /\ resp.success
    /\ "id" \in DOMAIN req.body
    /\ req.body.id # ParseInt(req.id).v
    /\ resp.data.price = 1
    /\ resp.data.inventory = 0
    /\ reservations # << >>

(***************************************************************************)
(* C20: of the page-view tracking requests for one pageId, issued one      *)
(* after the other or interleaved, none fails, and once none is under way  *)
(* the stored count of the page is its initial count (0 when the page had  *)
(* no record) plus the number of requests.                                 *)
(***************************************************************************)
C20_InitialCount(p) ==
    IF p \in DOMAIN pageViewsSeed THEN pageViewsSeed[p].count ELSE 0

C20_StoredCount(p) ==
    IF p \in DOMAIN pageViewsStore THEN pageViewsStore[p].count ELSE 0

C20_EveryViewCounted ==
    \A p \in PageIds :
        /\ tracking.failed[p] = 0
        /\ (\A r \in tracking.inflight : r.pageId # p)
              => C20_StoredCount(p)
                    = C20_InitialCount(p) + tracking.ok[p] + tracking.failed[p]

(***************************************************************************)
(* C22: the updated count of a successful PATCH /api/notifications is the  *)
(* number of notifications whose read flag the request changed from false  *)
(* to true, in the markAllRead path and in the notificationIds path.       *)
(***************************************************************************)
C22_UpdatedCountsChanges ==
    [][ (req'.op = "PATCH_notifications" /\ clock' = clock /\ resp'.success)
          => resp'.updated =
                Cardinality({i \in DOMAIN notificationsStore :
                                /\ ~notificationsStore[i].read
                                /\ notificationsStore'[i].read})
      ]_vars

C24_OrdersNeverThrows ==
    resp.op = "GET_orders"
        => /\ ~resp.threw
           /\ resp.status = 200
           /\ (\A i \in DOMAIN ordersTable :
                  ~MatchesWhere(ordersTable[i], StatusWhere(req.status)))
                 => (resp.orders = << >> /\ resp.totalRevenue = 0)

(***************************************************************************)
(* C25: paging through GET /api/products with a fixed limit of at least 1, *)
(* each request carrying the nextCursor of the response before it, ends    *)
(* with hasMore = false after no more requests than there are products,    *)
(* and the pages together hold every product exactly once.                 *)
(***************************************************************************)
C25_PagingCoversOnce ==
    /\ paging.state # "failed"
    /\ \A i, j \in DOMAIN paging.seen :
          paging.seen[i] = paging.seen[j] => i = j
    /\ paging.state = "more" => paging.requests < Len(productsStore)
    /\ paging.state = "done"
          => {paging.seen[i] : i \in DOMAIN paging.seen}
                = {productsStore[i].id : i \in DOMAIN productsStore}

(***************************************************************************)
(* C26: under any interleaving of concurrent logins for one email, at most *)
(* MAX_ATTEMPTS wrong-password attempts are answered 401 within one        *)
(* lockout window (counted since the last successful login), and every     *)
(* such attempt is among the attempts recorded for the email unless a      *)
(* later successful login cleared it.                                      *)
(***************************************************************************)
C26_Recorded ==
    IF logins.entry = 0 THEN {} ELSE logins.arrays[logins.entry]

C26_AttemptsBoundedAndRecorded ==
    /\ Cardinality(logins.failed \ logins.cleared) <= MAX_ATTEMPTS
    /\ (logins.failed \ logins.cleared) \subseteq C26_Recorded

(***************************************************************************)
(* C27: ids of created records are unique within their store: no two       *)
(* notifications and no two comments share an id, also when two are        *)
(* created in the same clock millisecond, and creating an export job does  *)
(* not overwrite a job already in the export-job store.                    *)
(***************************************************************************)
C27_StoreIdsDistinct ==
    /\ \A i, j \in DOMAIN notificationsStore :
          notificationsStore[i].id = notificationsStore[j].id => i = j
    /\ \A i, j \in DOMAIN commentsStore :
          commentsStore[i].id = commentsStore[j].id => i = j

C27_UniqueIds ==
    /\ []C27_StoreIdsDistinct
    /\ [][ (req'.op = "POST_export" /\ clock' = clock)
             => \A k \in DOMAIN exportJobs :
                   k \in DOMAIN exportJobs' /\ exportJobs'[k] = exportJobs[k]
         ]_vars

(***************************************************************************)
(* C28: in every state of the comment store that POST, PATCH and DELETE    *)
(* /api/comments reach, the parentId links are acyclic: no comment is      *)
(* among the replies buildReplyTree visits below it.                       *)
(***************************************************************************)
C28_ParentLinksAcyclic ==
    \A i \in DOMAIN commentsStore :
        i \notin Descendants(commentsStore, {i}, Len(commentsStore))

(***************************************************************************)
(* C29: every comment in the comment store has content of length between   *)
(* 1 and 1000, in every state that POST, PATCH (like or edit) and DELETE   *)
(* /api/comments reach.                                                    *)
(***************************************************************************)
C29_ContentLengthInRange ==
    \A i \in DOMAIN commentsStore :
        /\ commentsStore[i].contentLength >= 1
        /\ commentsStore[i].contentLength <= MaxContentLength

(***************************************************************************)
(* C30: in every state of the page-view store reached by create, update    *)
(* and upsert calls each entry's key equals the pageId of the record       *)
(* stored under it, and after an upsert with where.pageId = p the store    *)
(* holds a record under key p.                                             *)
(***************************************************************************)
C30_KeysArePageIds(store) == \A k \in DOMAIN store : store[k].pageId = k

C30_KeyEqualsPageId ==
    [][ /\ C30_KeysArePageIds(pageViewsStore')
        /\ (req'.op = "pageViews.upsert" /\ clock' = clock /\ ~resp'.threw)
              => req'.key \in DOMAIN pageViewsStore'
      ]_vars

=============================================================================
